---- MODULE Spec2Model ----
(***************************************************************************)
(* webhook-proxy: the forwarding engine (proxy.Handler), the webhook HTTP  *)
(* handler that invokes it (server.Server.registerEndpoint) and the        *)
(* metrics registry the delivery loops write to.                           *)
(*                                                                         *)
(* One delivery loop (Handler.forwardToDestination) is a process with the  *)
(* positions                                                               *)
(*   "start"     spawned by ForwardWebhook, before RecordRequest           *)
(*   "inflight"  inside sendRequest, waiting for the network call          *)
(*   "sleeping"  inside shouldRetry, in time.Sleep(retryDelay)             *)
(*   "done"      forwardToDestination has returned                         *)
(* Every step of a loop holds exactly one operation on the metrics         *)
(* registry (its linearisation point) together with the loop-local code    *)
(* around it.                                                              *)
(***************************************************************************)
EXTENDS Integers, Sequences, FiniteSets, TLC

\* ------------------------------------------------------------------ bounds
MaxRetries == 2
MaxRequests == 2

\* --------------------------------------------------------- program constants
DefaultRetryDelay == 1
StatusAccepted == 202
StatusInternalServerError == 500

\* Status codes a destination may answer with: both edges of [200,300).
StatusCodes == {199, 200, 299, 300}
\* Durations (ms) of a successful attempt.
Durations == {10, 30}
\* Configured retry delays (s); 0 stands for "not configured".
RetryDelays == {0, 2}
URLs == {"u1", "u2"}
Paths == {"/a", "/b"}

VARIABLES
    config,     \* path -> sequence of DestinationConfig (immutable after load)
    behaviour,  \* path -> sequence: how the destination's server behaves
    reqs,       \* inbound webhook requests, by request number
    calls,      \* ForwardWebhook invocations: request number (0: a direct
                \* call) -> the call
    loops,      \* delivery loops: <<call, destination index>> -> the loop
    metrics,    \* path -> the Metrics registry of that endpoint's Handler
    clock,      \* time.Now(), in ticks
    snapshot,   \* path -> what the latest Handler.GetMetrics call returned
    resetMark,  \* path -> whether the registry was ever reset, and how long
                \* the history of each loop was at the latest Reset
    admin,      \* the GET /metrics or POST /metrics/reset request being served,
                \* which request was served last, how many webhooks had been
                \* received when the latest reset was answered, whether the
                \* server was idle from its arrival to its answer, and which
                \* handlers the GET in progress has read after their reset
    boot        \* the configuration the process starts from: what the YAML
                \* file holds, and what validateConfig and LoadConfig made of it

vars == <<config, behaviour, reqs, calls, loops, metrics, clock, snapshot, resetMark, admin, boot>>

\* ------------------------------------------------------------ small helpers
Get(m, k) == IF k \in DOMAIN m THEN m[k] ELSE 0

Inc(m, k) == [x \in DOMAIN m \cup {k} |-> IF x = k THEN Get(m, k) + 1 ELSE m[x]]

EmptyMap == [x \in {} |-> 0]

\* ------------------------------------------------------------------ errors
NoErr == [kind |-> "none", code |-> 0]
ErrCreate == [kind |-> "failed to create request", code |-> 0]
ErrRequest == [kind |-> "request failed", code |-> 0]
ErrReadBody == [kind |-> "failed to read response body", code |-> 0]
ErrNon2xx(statusCode) == [kind |-> "received non-2xx status code", code |-> statusCode]

\* ----------------------------------------------------------------- metrics
\* The registry (NewMetrics, RecordRequest, RecordSuccess, RecordFailure).
NewDest ==
    [total |-> 0, success |-> 0, failed |-> 0, retries |-> 0,
     latSum |-> 0, latCount |-> 0, codes |-> EmptyMap,
     lastError |-> NoErr, lastErrorTime |-> 0]

NewMetrics ==
    [total |-> 0, success |-> 0, failed |-> 0, retries |-> 0,
     latSum |-> 0, latCount |-> 0, codes |-> EmptyMap,
     dests |-> [u \in {} |-> NewDest]]

DestOf(m, url) == IF url \in DOMAIN m.dests THEN m.dests[url] ELSE NewDest

WithDest(m, url, d) ==
    [u \in DOMAIN m.dests \cup {url} |-> IF u = url THEN d ELSE m.dests[u]]

RecordRequest(m, url) ==
    LET d == DestOf(m, url) IN
    [m EXCEPT !.total = @ + 1,
              !.dests = WithDest(m, url, [d EXCEPT !.total = @ + 1])]

RecordSuccess(m, url, statusCode, duration) ==
    LET d == DestOf(m, url) IN
    [m EXCEPT !.success = @ + 1,
              !.latSum = @ + duration,
              !.latCount = @ + 1,
              !.codes = Inc(@, statusCode),
              !.dests = WithDest(m, url,
                            [d EXCEPT !.success = @ + 1,
                                      !.latSum = @ + duration,
                                      !.latCount = @ + 1,
                                      !.codes = Inc(@, statusCode)])]

\* Mutant: the global failure counter is written from the destination's
\* counter, an update of another destination is lost.
RecordFailureLosingUpdate(m, url, err, isRetry, now) ==
    LET d == DestOf(m, url)
        r == IF isRetry THEN 1 ELSE 0 IN
    [m EXCEPT !.failed = d.failed + 1,
              !.retries = @ + r,
              !.dests = WithDest(m, url,
                            [d EXCEPT !.failed = @ + 1,
                                      !.retries = @ + r,
                                      !.lastError = err,
                                      !.lastErrorTime = now])]

RecordFailure(m, url, err, isRetry, now) ==
    LET d == DestOf(m, url)
        r == IF isRetry THEN 1 ELSE 0 IN
    [m EXCEPT !.failed = @ + 1,
              !.retries = @ + r,
              !.dests = WithDest(m, url,
                            [d EXCEPT !.failed = @ + 1,
                                      !.retries = @ + r,
                                      !.lastError = err,
                                      !.lastErrorTime = now])]

\* Mutant: the global counters are zeroed, the per-destination mapping is
\* left as it is.
ResetCountersOnly(m) == [NewMetrics EXCEPT !.dests = m.dests]

\* Reset: zeroes every counter and clears the per-destination mapping.
Reset(m) == NewMetrics

\* The float64 quotient sum/count in milliseconds, kept to three decimals
\* (in thousandths of a millisecond); 0 without samples.
AvgResponseTime(latSum, latCount) ==
    IF latCount = 0 THEN 0 ELSE (latSum * 1000) \div latCount

\* GetMetrics: the snapshot returned to the caller.
GetMetrics(m) ==
    [total_requests |-> m.total,
     successful_requests |-> m.success,
     failed_requests |-> m.failed,
     retries |-> m.retries,
     avg_response_time_ms |-> AvgResponseTime(m.latSum, m.latCount),
     status_codes |-> m.codes,
     destinations |->
        [u \in DOMAIN m.dests |->
            [total_requests |-> m.dests[u].total,
             successful_requests |-> m.dests[u].success,
             failed_requests |-> m.dests[u].failed,
             retries |-> m.dests[u].retries,
             avg_response_time_ms |->
                 AvgResponseTime(m.dests[u].latSum, m.dests[u].latCount),
             status_codes |-> m.dests[u].codes,
             last_error |-> m.dests[u].lastError,
             last_error_time |-> m.dests[u].lastErrorTime]]]

NoSnapshot == [taken |-> FALSE]

NoReset == [happened |-> FALSE, len |-> <<>>]

\* The configuration has been loaded and the server is running.
Booted == [pc |-> "running"]

\* No /metrics or /metrics/reset request has been served yet.
NoAdmin ==
    [pc |-> "idle", todo |-> {}, totalRequests |-> 0, successfulRequests |-> 0,
     failedRequests |-> 0, retries |-> 0, last |-> "none", received |-> 0,
     quiet |-> FALSE, afterReset |-> {}]

\* ----------------------------------------------------------------- headers
\* Header names as configuration and callers may write them, and values.
HeaderKeys == {"X-A", "x-a", "X-B"}

HeaderValues == {"v1", "v2"}

\* A map[string]string of headers.
HeaderMaps == UNION {[K -> HeaderValues] : K \in SUBSET HeaderKeys}

NoHeaders == <<>>

\* http.Header.Set stores a value under the canonical form of the name.
CanonicalHeaderKey(k) == IF k = "x-a" THEN "X-A" ELSE k

\* for k, v := range m { req.Header.Set(k, v) } on the header h: the order
\* of a map range is not specified, so of two names with one canonical form
\* either may be set last.
SetAll(h, m) ==
    LET Ks == {CanonicalHeaderKey(k) : k \in DOMAIN m}
        picks == {f \in [Ks -> DOMAIN m] : \A K \in Ks : CanonicalHeaderKey(f[K]) = K} IN
    {[K \in DOMAIN h \cup Ks |-> IF K \in Ks THEN m[pick[K]] ELSE h[K]] : pick \in picks}

\* Mutant: the configured headers are set first, the forwarded ones last.
RequestHeadersForwardedLast(headers, dest) ==
    UNION {SetAll(h, headers) : h \in SetAll(NoHeaders, dest.headers)}

\* The header of the request sendRequest builds: the forwarded headers,
\* then the destination's configured headers.
RequestHeaders(headers, dest) ==
    UNION {SetAll(h, dest.headers) : h \in SetAll(NoHeaders, headers)}

\* ------------------------------------------------------- forwarding engine
DestinationConfigs ==
    [url : URLs, retries : -1 .. MaxRetries, retryDelay : RetryDelays,
     valid : BOOLEAN,
     headers : {NoHeaders}]

\* Mutant: the initial attempt is not counted (maxAttempts := dest.Retries).
MaxAttemptsNoInitial(dest) == IF dest.retries <= 0 THEN 1 ELSE dest.retries

\* Mutant: the floor of maxAttempts is 2, a destination without retries is
\* tried again once.
MaxAttemptsFloorTwo(dest) == IF dest.retries + 1 <= 1 THEN 2 ELSE dest.retries + 1

\* maxAttempts := dest.Retries + 1; if maxAttempts <= 0 { maxAttempts = 1 }
MaxAttempts(dest) == IF dest.retries + 1 <= 0 THEN 1 ELSE dest.retries + 1

\* Mutant: the upper edge is included (statusCode <= 300).
IsSuccessUpTo300(statusCode) == statusCode >= 200 /\ statusCode <= 300

\* Mutant: the lower edge is excluded (statusCode > 200).
IsSuccessAbove200(statusCode) == statusCode > 200 /\ statusCode < 300

\* statusCode >= 200 && statusCode < 300
IsSuccess(statusCode) == statusCode >= 200 /\ statusCode < 300

\* Mutant: the first attempt counts as a retry (attempt >= 1).
IsRetryFromFirst(attempt) == attempt >= 1

\* Mutant: no attempt is passed on as a retry.
IsRetryNever(attempt) == FALSE

\* isRetry := attempt > 1
IsRetry(attempt) == attempt > 1

\* shouldRetry's result; when TRUE it has slept RetryDelay(dest) first.
shouldRetry(attempt, maxAttempts) == ~(attempt >= maxAttempts)

\* Mutant: no default, the configured delay is slept as it is.
RetryDelayAsConfigured(dest) == dest.retryDelay

\* retryDelay := dest.RetryDelay, one second when it is zero or negative.
RetryDelay(dest) ==
    IF dest.retryDelay <= 0 THEN DefaultRetryDelay ELSE dest.retryDelay

\* What one network call can come to: how it ended, the status code of the
\* response if there was one, and the time it took (ms).
Outcome(kind, code, duration) == [kind |-> kind, code |-> code, duration |-> duration]

MinDuration == CHOOSE d \in Durations : \A e \in Durations : d <= e

NoOutcome == Outcome("none", 0, 0)

CreateErr == Outcome("create_err", 0, 0)

TransportErr == Outcome("transport_err", 0, MinDuration)

AllOutcomes ==
    {TransportErr}
        \cup {Outcome("read_err", c, MinDuration) : c \in StatusCodes}
        \cup {Outcome("response", c, d) : c \in StatusCodes, d \in Durations}

\* The outcomes the destination's server allows.
BehaviourOutcomes(b) ==
    CASE b = "any" -> AllOutcomes
      [] b = "varying" -> {Outcome("response", 200, d) : d \in Durations}
                            \cup {Outcome("response", 300, MinDuration), TransportErr}
      [] b = "up" -> {Outcome("response", 200, MinDuration)}
      [] b = "down" -> {TransportErr}
      [] b = "flaky" -> {Outcome("response", 200, MinDuration), TransportErr}

\* http.NewRequestWithContext fails for a destination whose method or URL is
\* not valid, whatever the server does.
Outcomes(dest, b) ==
    IF dest.valid THEN BehaviourOutcomes(b) ELSE {CreateErr}

\* Mutant: startTime is taken after client.Do has returned, the duration is
\* always 0.
sendRequestElapsedZero(out) ==
    CASE out.kind = "create_err" ->
            [statusCode |-> 0, bodyNil |-> TRUE, duration |-> 0, err |-> ErrCreate]
      [] out.kind = "transport_err" ->
            [statusCode |-> 0, bodyNil |-> TRUE, duration |-> 0, err |-> ErrRequest]
      [] out.kind = "read_err" ->
            [statusCode |-> out.code, bodyNil |-> TRUE, duration |-> 0,
             err |-> ErrReadBody]
      [] out.kind = "response" ->
            [statusCode |-> out.code, bodyNil |-> FALSE, duration |-> 0,
             err |-> NoErr]

\* Mutant: the transport error is dropped, sendRequest returns a nil error.
sendRequestSwallowingError(out) ==
    CASE out.kind = "create_err" ->
            [statusCode |-> 0, bodyNil |-> TRUE, duration |-> 0, err |-> ErrCreate]
      [] out.kind = "transport_err" ->
            [statusCode |-> 0, bodyNil |-> TRUE, duration |-> out.duration,
             err |-> NoErr]
      [] out.kind = "read_err" ->
            [statusCode |-> out.code, bodyNil |-> TRUE, duration |-> out.duration,
             err |-> ErrReadBody]
      [] out.kind = "response" ->
            [statusCode |-> out.code, bodyNil |-> FALSE, duration |-> out.duration,
             err |-> NoErr]

\* Mutant: the error of io.ReadAll is dropped, the status code decides.
sendRequestIgnoringReadError(out) ==
    CASE out.kind = "create_err" ->
            [statusCode |-> 0, bodyNil |-> TRUE, duration |-> 0, err |-> ErrCreate]
      [] out.kind = "transport_err" ->
            [statusCode |-> 0, bodyNil |-> TRUE, duration |-> out.duration,
             err |-> ErrRequest]
      [] out.kind = "read_err" ->
            [statusCode |-> out.code, bodyNil |-> TRUE, duration |-> out.duration,
             err |-> NoErr]
      [] out.kind = "response" ->
            [statusCode |-> out.code, bodyNil |-> FALSE, duration |-> out.duration,
             err |-> NoErr]

\* sendRequest's return values (statusCode, respBody == nil, duration, err).
sendRequest(out) ==
    CASE out.kind = "create_err" ->
            [statusCode |-> 0, bodyNil |-> TRUE, duration |-> 0, err |-> ErrCreate]
      [] out.kind = "transport_err" ->
            [statusCode |-> 0, bodyNil |-> TRUE, duration |-> out.duration,
             err |-> ErrRequest]
      [] out.kind = "read_err" ->
            [statusCode |-> out.code, bodyNil |-> TRUE, duration |-> out.duration,
             err |-> ErrReadBody]
      [] out.kind = "response" ->
            [statusCode |-> out.code, bodyNil |-> FALSE, duration |-> out.duration,
             err |-> NoErr]

\* A side effect of the code run for a loop: a Record* call on the registry
\* or a log event, who made it, during which attempt (at), and the attempt
\* and max_attempts fields the log event carries (0: no such field).  A loop
\* keeps the side effects of its latest attempt.
Effect(by, op, msg, at, attempt, maxAttempts) ==
    [by |-> by, op |-> op, msg |-> msg, at |-> at, attempt |-> attempt,
     maxAttempts |-> maxAttempts]

\* Mutant: sendRequest returns the error and leaves recording and logging to
\* its caller.
sendRequestEffectsNone(out, at) == <<>>

\* What sendRequest itself records and logs before it returns.
sendRequestEffects(out, at) ==
    CASE out.kind = "create_err" ->
            <<Effect("sendRequest", "log", "Failed to create request", at, 0, 0),
              Effect("sendRequest", "RecordFailure", "", at, 0, 0)>>
      [] out.kind \in {"transport_err", "read_err"} ->
            \* logger.LogWebhookError(p.log, dest.URL, err, 1, 1)
            <<Effect("sendRequest", "log", "Webhook forwarding failed", at, 1, 1),
              Effect("sendRequest", "RecordFailure", "", at, 0, 0)>>
      [] out.kind = "response" -> <<>>

\* What forwardToDestination records and logs once sendRequest has returned
\* res on attempt `at`.
callerEffects(res, at, maxAttempts) ==
    IF res.err # NoErr THEN <<>>
    ELSE IF IsSuccess(res.statusCode)
    THEN <<Effect("forwardToDestination", "RecordSuccess", "", at, 0, 0),
           Effect("forwardToDestination", "log", "Webhook forwarded successfully", at, at, 0)>>
    ELSE \* logger.LogWebhookError(p.log, dest.URL, lastErr, attempt, maxAttempts)
         <<Effect("forwardToDestination", "log", "Webhook forwarding failed", at, at,
                  maxAttempts),
           Effect("forwardToDestination", "RecordFailure", "", at, 0, 0)>>

\* shouldRetry logs the retry before it sleeps.
shouldRetryEffects(retry, at, maxAttempts) ==
    IF retry
    THEN <<Effect("shouldRetry", "log", "Retrying webhook forwarding", at, at, maxAttempts)>>
    ELSE <<>>

\* The registry after the Record* calls among effs, in their order.
RECURSIVE ApplyRecords(_, _, _, _, _, _)
ApplyRecords(m, effs, url, res, isRetry, now) ==
    IF effs = <<>> THEN m
    ELSE LET e == Head(effs)
             err == IF res.err # NoErr THEN res.err ELSE ErrNon2xx(res.statusCode)
             m1 == CASE e.op = "RecordFailure" -> RecordFailure(m, url, err, isRetry, now)
                     [] e.op = "RecordSuccess" ->
                            RecordSuccess(m, url, res.statusCode, res.duration)
                     [] OTHER -> m
         IN ApplyRecords(m1, Tail(effs), url, res, isRetry, now)

NumRecordFailure(effs) == Len(SelectSeq(effs, LAMBDA e : e.op = "RecordFailure"))

\* An event of a loop's history.
Ev(e, attempt, arg) == [ev |-> e, attempt |-> attempt, arg |-> arg]

B2N(b) == IF b THEN 1 ELSE 0

DestCfg(l) == config[l.path][l.idx]

\* Mutant: every Handler is given the one registry of the process.
MetricsOfProcess(path) == "/a"

\* The registry a Handler writes to and reads from: NewProxyHandler gives
\* every Handler a registry of its own (metrics: NewMetrics()), and the server
\* constructs one Handler per endpoint path.
MetricsOf(path) == path

\* Mutant: no goroutine per destination; ForwardWebhook forwards to the
\* destinations one after the other.
RunnableInTurn(i) ==
    \A j \in DOMAIN loops : (j[1] = i[1] /\ j[2] < i[2]) => loops[j].pc = "done"

\* Every delivery loop runs in a goroutine of its own (go func(d) {...}(dest)).
Runnable(i) == TRUE

\* Mutant: no return after the success log; the loop goes on to shouldRetry.
AfterSuccessGoOn(attempt, maxAttempts) ==
    IF attempt < maxAttempts THEN "sleeping" ELSE "done"

\* After RecordSuccess and the success log the loop returns.
AfterSuccess(attempt, maxAttempts) == "done"

\* Mutant: wg.Wait() is live, ForwardWebhook returns when every loop is done.
WaitGroupWait(c) ==
    \A j \in DOMAIN loops : j[1] = c => loops[j].pc = "done"

\* ForwardWebhook does not wait for its loops (wg.Wait() is commented out).
WaitGroupDone(c) == TRUE

NewLoop(c, path, idx) ==
    [call |-> c, path |-> path, idx |-> idx, pc |-> "start", attempt |-> 0,
     maxAttempts |-> 0, lastErr |-> NoErr, finalLog |-> FALSE,
     lastOut |-> NoOutcome, trace |-> <<>>, sent |-> <<>>, effects |-> <<>>]

\* Mutant: one goroutine per distinct destination URL (the first entry of
\* each URL).
DistinctDestinationEntries(path) ==
    {k \in 1 .. Len(config[path]) :
        \A j \in 1 .. k - 1 : config[path][j].url # config[path][k].url}

\* for _, dest := range p.destinations
DestinationEntries(path) == 1 .. Len(config[path])

\* ForwardWebhook: one goroutine per destination entry.
ForwardWebhook(c) ==
    /\ c \in DOMAIN calls
    /\ calls[c].pc = "pending"
    /\ LET path == calls[c].path IN
       /\ loops' = [id \in DOMAIN loops \cup {<<c, k>> : k \in DestinationEntries(path)} |->
                        IF id \in DOMAIN loops THEN loops[id]
                        ELSE NewLoop(c, path, id[2])]
       /\ calls' = [calls EXCEPT ![c].pc = "spawned"]
    /\ UNCHANGED <<boot, admin, snapshot, resetMark, config, behaviour, reqs, metrics, clock>>

ForwardWebhookReturn(c) ==
    /\ c \in DOMAIN calls
    /\ calls[c].pc = "spawned"
    /\ WaitGroupDone(c)
    /\ calls' = [calls EXCEPT ![c].pc = "returned"]
    /\ UNCHANGED <<boot, admin, snapshot, resetMark, config, behaviour, reqs, loops, metrics, clock>>

\* forwardToDestination up to its first sendRequest: RecordRequest, maxAttempts.
LoopStart(i) ==
    /\ i \in DOMAIN loops
    /\ loops[i].pc = "start"
    /\ Runnable(i)
    /\ LET l == loops[i]
           dest == DestCfg(l) IN
       /\ metrics' = [metrics EXCEPT ![MetricsOf(l.path)] = RecordRequest(@, dest.url)]
       /\ loops' = [loops EXCEPT
              ![i].pc = "inflight",
              ![i].attempt = 1,
              ![i].maxAttempts = MaxAttempts(dest),
              ![i].trace = @ \o <<Ev("request", 0, 0), Ev("send", 1, 0)>>]
    /\ UNCHANGED <<boot, admin, snapshot, resetMark, config, behaviour, reqs, calls, clock>>

\* The rest of one iteration of the retry loop, from the moment the network
\* call (or the request construction) has come to `out`.
AttemptCompletes(i, out) ==
    /\ i \in DOMAIN loops
    /\ loops[i].pc = "inflight"
    /\ Runnable(i)
    /\ LET l == loops[i]
           dest == DestCfg(l)
           isRetry == IsRetry(l.attempt)
           res == sendRequest(out)
           retry == shouldRetry(l.attempt, l.maxAttempts)
           effs == sendRequestEffects(out, l.attempt)
                       \o callerEffects(res, l.attempt, l.maxAttempts)
       IN
       /\ out \in Outcomes(dest, behaviour[l.path][l.idx])
       /\ metrics' = [metrics EXCEPT ![MetricsOf(l.path)] =
                          ApplyRecords(@, effs, dest.url, res, isRetry, clock)]
       /\ clock' = clock + NumRecordFailure(effs)
       /\ \E h \in RequestHeaders(calls[l.call].headers, dest) :
            LET \* no request is sent when it could not be constructed
                sent == IF out.kind = "create_err" THEN l.sent ELSE Append(l.sent, h)
                failed(err, log) ==
                    loops' = [loops EXCEPT
                        ![i].pc = IF retry THEN "sleeping" ELSE "done",
                        ![i].lastErr = err,
                        ![i].lastOut = out,
                        ![i].sent = sent,
                        ![i].finalLog = log /\ ~retry,
                        ![i].effects = effs
                                         \o shouldRetryEffects(retry, l.attempt, l.maxAttempts)
                                         \o (IF log /\ ~retry
                                             THEN <<Effect("forwardToDestination", "log",
                                                     "Webhook forwarding failed after all retry attempts",
                                                     l.attempt, 0, 0)>>
                                             ELSE <<>>),
                        ![i].trace = @ \o <<Ev("failure", l.attempt, B2N(isRetry))>>
                                       \o (IF retry
                                           THEN <<Ev("sleep", l.attempt, RetryDelay(dest))>>
                                           ELSE <<>>)]
            IN
            IF res.err # NoErr
            THEN \* sendRequest recorded the failure; on the last attempt the
                 \* loop returns at once
                 failed(res.err, FALSE)
            ELSE IF IsSuccess(res.statusCode)
            THEN loops' = [loops EXCEPT
                     ![i].pc = AfterSuccess(l.attempt, l.maxAttempts),
                     ![i].lastOut = out,
                     ![i].sent = sent,
                     ![i].effects = effs,
                     ![i].trace = @ \o <<Ev("success", l.attempt, res.statusCode)>>]
            ELSE \* on the last attempt the for loop ends and the final error is logged
                 failed(ErrNon2xx(res.statusCode), TRUE)
    /\ UNCHANGED <<boot, admin, snapshot, resetMark, config, behaviour, reqs, calls>>

\* Mutant: RecordRequest sits inside the retry loop, every attempt records a
\* request.
WakeRecordingRequest(i) ==
    /\ i \in DOMAIN loops
    /\ loops[i].pc = "sleeping"
    /\ Runnable(i)
    /\ LET l == loops[i]
           again == l.attempt + 1 <= l.maxAttempts IN
       /\ loops' = [loops EXCEPT
              ![i].pc = IF again THEN "inflight" ELSE "done",
              ![i].attempt = @ + 1,
              ![i].finalLog = IF again THEN @ ELSE l.lastErr # NoErr,
              ![i].trace = IF again
                           THEN @ \o <<Ev("request", 0, 0), Ev("send", l.attempt + 1, 0)>>
                           ELSE @]
       /\ metrics' = [metrics EXCEPT ![MetricsOf(l.path)] = RecordRequest(@, DestCfg(l).url)]
    /\ UNCHANGED <<boot, admin, snapshot, resetMark, config, behaviour, reqs, calls, clock>>

\* Mutant: the loop goes round without attempt++.
WakeWithoutIncrement(i) ==
    /\ i \in DOMAIN loops
    /\ loops[i].pc = "sleeping"
    /\ Runnable(i)
    /\ LET l == loops[i] IN
       loops' = [loops EXCEPT
           ![i].pc = "inflight",
           ![i].trace = @ \o <<Ev("send", l.attempt, 0)>>]
    /\ UNCHANGED <<boot, admin, snapshot, resetMark, config, behaviour, reqs, calls, metrics, clock>>

\* time.Sleep(retryDelay) is over: shouldRetry returns true, attempt++, and
\* the for condition attempt <= maxAttempts decides between the next
\* sendRequest and the end of the loop (with the final error log).
Wake(i) ==
    /\ i \in DOMAIN loops
    /\ loops[i].pc = "sleeping"
    /\ Runnable(i)
    /\ LET l == loops[i]
           again == l.attempt + 1 <= l.maxAttempts IN
       loops' = [loops EXCEPT
           ![i].pc = IF again THEN "inflight" ELSE "done",
           ![i].attempt = @ + 1,
           ![i].finalLog = IF again THEN @ ELSE l.lastErr # NoErr,
           ![i].effects =
               IF l.lastErr.kind = ErrNon2xx(0).kind
               THEN @ \o <<Effect("forwardToDestination", "log",
                              "Retrying webhook forwarding due to non-2xx status code",
                              l.attempt, l.attempt, l.maxAttempts)>>
               ELSE @,
           ![i].trace = IF again THEN @ \o <<Ev("send", l.attempt + 1, 0)>> ELSE @]
    /\ UNCHANGED <<boot, admin, snapshot, resetMark, config, behaviour, reqs, calls, metrics, clock>>

\* Handler.GetMetrics: return p.metrics.GetMetrics()
HandlerGetMetrics(p) ==
    /\ p \in DOMAIN metrics
    /\ snapshot' = [snapshot EXCEPT ![p] =
           [taken |-> TRUE, view |-> GetMetrics(metrics[MetricsOf(p)])]]
    /\ UNCHANGED <<boot, admin, config, behaviour, reqs, calls, loops, metrics, clock, resetMark>>

\* Mutant: the handler resets a registry that is not the one its loops
\* write to.
ResetMetricsOfCopy(p) ==
    /\ p \in DOMAIN metrics
    /\ resetMark' = [resetMark EXCEPT ![p] =
           [happened |-> TRUE,
            len |-> [i \in {j \in DOMAIN loops : loops[j].path = p} |-> Len(loops[i].trace)]]]
    /\ UNCHANGED <<boot, admin, config, behaviour, reqs, calls, loops, metrics, clock, snapshot>>

\* Handler.ResetMetrics: p.metrics.Reset()
ResetMetrics(p) ==
    /\ p \in DOMAIN metrics
    /\ metrics' = [metrics EXCEPT ![MetricsOf(p)] = Reset(@)]
    /\ resetMark' = [resetMark EXCEPT ![p] =
           [happened |-> TRUE,
            len |-> [i \in {j \in DOMAIN loops : loops[j].path = p} |-> Len(loops[i].trace)]]]
    /\ UNCHANGED <<boot, admin, config, behaviour, reqs, calls, loops, clock, snapshot>>

LoopStep(i) ==
    \/ LoopStart(i)
    \/ \E out \in AllOutcomes \cup {CreateErr} : AttemptCompletes(i, out)
    \/ Wake(i)

\* ------------------------------------------------------ webhook HTTP handler
NewRequest ==
    [pc |-> "idle", path |-> "", bodyOk |-> FALSE, status |-> 0, body |-> "",
     header |-> <<>>]

\* The header of an inbound request (r.Header): canonical names, each with
\* the list of its values.
InboundHeader == [k \in {"X-A"} |-> <<"v1", "v2">>]

\* headers[k] = v[0] for every name with at least one value.
FirstValues(header) ==
    [k \in {x \in DOMAIN header : Len(header[x]) > 0} |-> header[k][1]]

\* Mutant: no return after http.Error.
NextAfterReadNoReturn(ok) == "forward"

\* The handler returns right after http.Error when the body cannot be read.
NextAfterRead(ok) == IF ok THEN "forward" ELSE "done"

\* Mutant: the handler answers 502 once a delivery loop of the request has
\* recorded a failure.
ResponseByOutcome(r) ==
    IF \E j \in DOMAIN loops : j[1] = r /\ loops[j].lastErr # NoErr
    THEN [status |-> 502, body |-> "forwarding failed"]
    ELSE [status |-> StatusAccepted, body |-> "accepted"]

\* w.WriteHeader(http.StatusAccepted); w.Write(`{"status":"accepted"}`)
AcceptedResponse(r) == [status |-> StatusAccepted, body |-> "accepted"]

\* The router hands a POST on a registered path to that endpoint's handler,
\* which reads the body: body, err = readRequestBody(r); on err:
\* http.Error(w, "Failed to read request body", 500); return
Receive(r, path, ok) ==
    /\ reqs[r].pc = "idle"
    /\ \A q \in 1 .. r - 1 : reqs[q].pc # "idle"
    /\ path \in DOMAIN config
    /\ reqs' = [reqs EXCEPT
           ![r].pc = NextAfterRead(ok),
           ![r].path = path,
           ![r].bodyOk = ok,
           ![r].header = InboundHeader,
           ![r].status = IF ok THEN @ ELSE StatusInternalServerError,
           ![r].body = IF ok THEN @ ELSE "Failed to read request body"]
    /\ UNCHANGED <<boot, admin, snapshot, resetMark, config, behaviour, calls, loops, metrics, clock>>

\* go func() { ...; proxyHandler.ForwardWebhook(body, headers); ... }()
GoForward(r) ==
    /\ reqs[r].pc = "forward"
    /\ calls' = [c \in DOMAIN calls \cup {r} |->
                     IF c = r THEN [path |-> reqs[r].path, req |-> r, pc |-> "pending",
                                   headers |-> FirstValues(reqs[r].header)]
                     ELSE calls[c]]
    /\ reqs' = [reqs EXCEPT ![r].pc = "respond"]
    /\ UNCHANGED <<boot, admin, snapshot, resetMark, config, behaviour, loops, metrics, clock>>

\* The first WriteHeader of a response decides its status.
WriteResponse(r) ==
    /\ reqs[r].pc = "respond"
    /\ reqs' = [reqs EXCEPT
           ![r].pc = "done",
           ![r].status = IF @ = 0 THEN AcceptedResponse(r).status ELSE @,
           ![r].body = IF reqs[r].status = 0 THEN AcceptedResponse(r).body ELSE @]
    /\ UNCHANGED <<boot, admin, snapshot, resetMark, config, behaviour, calls, loops, metrics, clock>>

\* ------------------------------------------- /metrics and /metrics/reset
\* float64(successful) / float64(total) * 100, kept to two decimals (in
\* hundredths of a percent); 0 for total == 0.
calculateSuccessRate(successful, total) ==
    IF total = 0 THEN 0 ELSE (successful * 10000) \div total

\* The webhook requests the server has received so far.
Received == Cardinality({r \in DOMAIN reqs : reqs[r].pc # "idle"})

\* No webhook is being processed: every received one has been answered and
\* every delivery loop started for it has returned.
Idle ==
    /\ \A r \in DOMAIN reqs : reqs[r].pc \in {"idle", "done"}
    /\ \A c \in DOMAIN calls : calls[c].pc # "pending"
    /\ \A i \in DOMAIN loops : loops[i].pc = "done"

\* GET /metrics: the handler starts with zero totals and an empty
\* endpointMetrics map.
MetricsGetStart ==
    /\ admin.pc = "idle"
    /\ admin' = [admin EXCEPT
           !.pc = "get", !.todo = DOMAIN config,
           !.totalRequests = 0, !.successfulRequests = 0, !.failedRequests = 0,
           !.retries = 0, !.afterReset = {}]
    /\ snapshot' = [p \in DOMAIN snapshot |-> NoSnapshot]
    /\ UNCHANGED <<boot, config, behaviour, reqs, calls, loops, metrics, clock, resetMark>>

\* Mutant: the totals are taken from the first handler read and not added
\* up over the others.
MetricsGetHandlerTotalsOfFirst(p) ==
    /\ admin.pc = "get"
    /\ p \in admin.todo
    /\ LET handlerMetrics == GetMetrics(metrics[MetricsOf(p)])
           first == admin.todo = DOMAIN config IN
       /\ snapshot' = [snapshot EXCEPT ![p] = [taken |-> TRUE, view |-> handlerMetrics]]
       /\ admin' = [admin EXCEPT
              !.todo = @ \ {p},
              !.totalRequests = IF first THEN handlerMetrics.total_requests ELSE @,
              !.successfulRequests = IF first THEN handlerMetrics.successful_requests ELSE @,
              !.failedRequests = IF first THEN handlerMetrics.failed_requests ELSE @,
              !.retries = IF first THEN handlerMetrics.retries ELSE @,
              !.afterReset = IF resetMark[p].happened THEN @ \cup {p} ELSE @]
    /\ UNCHANGED <<boot, config, behaviour, reqs, calls, loops, metrics, clock, resetMark>>

\* One round of `for path, handler := range s.proxyHandlers` (in the order
\* the map yields): handlerMetrics := handler.GetMetrics();
\* endpointMetrics[path] = handlerMetrics; the totals are added up.
MetricsGetHandler(p) ==
    /\ admin.pc = "get"
    /\ p \in admin.todo
    /\ LET handlerMetrics == GetMetrics(metrics[MetricsOf(p)]) IN
       /\ snapshot' = [snapshot EXCEPT ![p] = [taken |-> TRUE, view |-> handlerMetrics]]
       /\ admin' = [admin EXCEPT
              !.todo = @ \ {p},
              !.totalRequests = @ + handlerMetrics.total_requests,
              !.successfulRequests = @ + handlerMetrics.successful_requests,
              !.failedRequests = @ + handlerMetrics.failed_requests,
              !.retries = @ + handlerMetrics.retries,
              !.afterReset = IF resetMark[p].happened THEN @ \cup {p} ELSE @]
    /\ UNCHANGED <<boot, config, behaviour, reqs, calls, loops, metrics, clock, resetMark>>

\* The response of GET /metrics once every handler has been read:
\* metrics["global"] and metrics["endpoints"].
MetricsResponse ==
    [status |-> 200,
     global |->
         [total_requests |-> admin.totalRequests,
          successful_requests |-> admin.successfulRequests,
          failed_requests |-> admin.failedRequests,
          retries |-> admin.retries,
          success_rate |-> calculateSuccessRate(admin.successfulRequests,
                                                admin.totalRequests)],
     endpoints |-> [p \in DOMAIN config |-> snapshot[p].view]]

\* json.NewEncoder(w).Encode(metrics): MetricsResponse is written and the
\* handler returns.
MetricsGetRespond ==
    /\ admin.pc = "get"
    /\ admin.todo = {}
    /\ admin' = [admin EXCEPT
           !.pc = "idle", !.last = "get", !.received = 0, !.quiet = FALSE,
           !.totalRequests = 0, !.successfulRequests = 0, !.failedRequests = 0,
           !.retries = 0, !.afterReset = {}]
    /\ snapshot' = [p \in DOMAIN snapshot |-> NoSnapshot]
    /\ UNCHANGED <<boot, config, behaviour, reqs, calls, loops, metrics, clock, resetMark>>

\* Mutant: only the handler of the first registered endpoint is reset.
ResetHandlersFirstOnly == {"/a"}

\* POST /metrics/reset resets the handlers of s.proxyHandlers: all of them.
ResetHandlers == DOMAIN config

MetricsResetStart ==
    /\ admin.pc = "idle"
    /\ admin' = [admin EXCEPT
           !.pc = "reset", !.todo = ResetHandlers, !.received = Received,
           !.quiet = Idle]
    /\ UNCHANGED <<boot, config, behaviour, reqs, calls, loops, metrics, clock, snapshot, resetMark>>

\* One round of `for _, handler := range s.proxyHandlers`: handler.ResetMetrics()
MetricsResetHandler(p) ==
    /\ admin.pc = "reset"
    /\ p \in admin.todo
    /\ metrics' = [metrics EXCEPT ![MetricsOf(p)] = Reset(@)]
    /\ resetMark' = [resetMark EXCEPT ![p] =
           [happened |-> TRUE,
            len |-> [i \in {j \in DOMAIN loops : loops[j].path = p} |-> Len(loops[i].trace)]]]
    /\ admin' = [admin EXCEPT !.todo = @ \ {p}]
    /\ UNCHANGED <<boot, config, behaviour, reqs, calls, loops, clock, snapshot>>

\* w.WriteHeader(http.StatusOK); w.Write(`{"status":"ok","message":...}`)
MetricsResetRespond ==
    /\ admin.pc = "reset"
    /\ admin.todo = {}
    /\ admin' = [admin EXCEPT
           !.pc = "idle",
           !.last = "reset",
           !.received = Received,
           !.quiet = admin.quiet /\ Received = admin.received]
    /\ UNCHANGED <<boot, config, behaviour, reqs, calls, loops, metrics, clock, snapshot, resetMark>>

\* One round of the loop of a POST /metrics/reset that a second client has
\* sent, while the handler of GET /metrics may be running: each handler is
\* reset once.
MetricsResetConcurrent(p) ==
    /\ ~resetMark[p].happened
    /\ ResetMetrics(p)

MetricsStep ==
    \/ MetricsGetStart
    \/ \E p \in Paths : MetricsGetHandler(p)
    \/ MetricsGetRespond
    \/ MetricsResetStart
    \/ \E p \in Paths : MetricsResetHandler(p)
    \/ MetricsResetRespond

\* -------------------------------------------------- configuration loader
\* Strings the loader looks into are sequences of characters.
HasPrefix(str, prefix) ==
    Len(str) >= Len(prefix) /\ SubSeq(str, 1, Len(prefix)) = prefix

UpperOf == [c \in {"g", "e", "t", "p", "o", "s"} |->
               CASE c = "g" -> "G" [] c = "e" -> "E" [] c = "t" -> "T"
                 [] c = "p" -> "P" [] c = "o" -> "O" [] c = "s" -> "S"]

\* strings.ToUpper
ToUpper(str) == [k \in DOMAIN str |-> IF str[k] \in DOMAIN UpperOf THEN UpperOf[str[k]] ELSE str[k]]

Chars(word) ==
    CASE word = "" -> <<>>
      [] word = "GET" -> <<"G", "E", "T">>
      [] word = "POST" -> <<"P", "O", "S", "T">>
      [] word = "PUT" -> <<"P", "U", "T">>
      [] word = "DELETE" -> <<"D", "E", "L", "E", "T", "E">>
      [] word = "PATCH" -> <<"P", "A", "T", "C", "H">>
      [] word = "HEAD" -> <<"H", "E", "A", "D">>
      [] word = "OPTIONS" -> <<"O", "P", "T", "I", "O", "N", "S">>
      [] word = "TRACE" -> <<"T", "R", "A", "C", "E">>
      [] word = "post" -> <<"p", "o", "s", "t">>
      [] word = "Get" -> <<"G", "e", "t">>
      [] word = "/" -> <<"/">>
      [] word = "/hook" -> <<"/", "h", "o", "o", "k">>
      [] word = "hook" -> <<"h", "o", "o", "k">>

\* The destination URLs a file may hold, and url.ParseRequestURI on them: it
\* accepts an absolute URI or an absolute path and nothing else.
UrlTexts == {"", "example.com/hook", "/hook", "http://example.com/hook"}

ParseRequestURIFails(rawURL) == rawURL \in {"", "example.com/hook"}

DefaultMethod == Chars("POST")

validMethods ==
    {Chars(w) : w \in {"GET", "POST", "PUT", "DELETE", "PATCH", "HEAD", "OPTIONS"}}

validLevels == {"debug", "info", "warn", "error"}

validFormats == {"json", "text"}

validOutputs == {"stdout", "file"}

\* The first error of a sequence of validation results ("nil": no error).
RECURSIVE FirstError(_)
FirstError(errs) ==
    IF errs = <<>> THEN "nil"
    ELSE IF Head(errs) # "nil" THEN Head(errs)
    ELSE FirstError(Tail(errs))

\* Mutant: the upper limit is off by one (server.Port > 65536).
validateServerConfigOffByOne(server) ==
    IF server.port < 0 \/ server.port > 65536 THEN "invalid server port" ELSE "nil"

validateServerConfig(server) ==
    IF server.port < 0 \/ server.port > 65535 THEN "invalid server port" ELSE "nil"

validateLoggingConfig(logging) ==
    IF logging.level \notin validLevels THEN "invalid logging level"
    ELSE IF logging.format \notin validFormats THEN "invalid logging format"
    ELSE IF logging.output \notin validOutputs THEN "invalid logging output"
    ELSE IF logging.output = "file" /\ logging.filePath = ""
    THEN "file_path is required when output is file"
    ELSE "nil"

validateDestinationConfig(dest) ==
    IF dest.url = "" THEN "url is required"
    ELSE IF ParseRequestURIFails(dest.url) THEN "invalid url"
    ELSE IF ToUpper(dest.method) \notin validMethods THEN "invalid method"
    ELSE IF dest.timeout < 0 THEN "timeout cannot be negative"
    ELSE IF dest.retries < 0 THEN "retries cannot be negative"
    ELSE IF dest.retryDelay < 0 THEN "retry_delay cannot be negative"
    ELSE "nil"

validateEndpointConfig(endpoint) ==
    IF endpoint.path = <<>> THEN "path is required"
    ELSE IF ~HasPrefix(endpoint.path, <<"/">>) THEN "path must start with /"
    ELSE IF Len(endpoint.destinations) = 0 THEN "at least one destination is required"
    ELSE FirstError([j \in DOMAIN endpoint.destinations |->
                        validateDestinationConfig(endpoint.destinations[j])])

validateConfig(cfg) ==
    IF validateServerConfig(cfg.server) # "nil" THEN validateServerConfig(cfg.server)
    ELSE IF validateLoggingConfig(cfg.logging) # "nil" THEN validateLoggingConfig(cfg.logging)
    ELSE IF Len(cfg.endpoints) = 0 THEN "at least one endpoint is required"
    ELSE FirstError([i \in DOMAIN cfg.endpoints |->
                        validateEndpointConfig(cfg.endpoints[i])])

\* setDefaultValues on one destination (durations in seconds).
setDestinationDefaults(dest) ==
    [dest EXCEPT
        !.method = IF @ = <<>> THEN DefaultMethod ELSE @,
        !.timeout = IF @ = 0 THEN 5 ELSE @,
        !.retries = IF @ < 0 THEN 0 ELSE @,
        !.retryDelay = IF @ = 0 THEN 1 ELSE @]

setDefaultValues(cfg) ==
    [server |-> [port |-> IF cfg.server.port = 0 THEN 8080 ELSE cfg.server.port,
                 host |-> IF cfg.server.host = "" THEN "0.0.0.0" ELSE cfg.server.host],
     logging |-> [cfg.logging EXCEPT
                     !.level = IF @ = "" THEN "info" ELSE @,
                     !.format = IF @ = "" THEN "json" ELSE @,
                     !.output = IF @ = "" THEN "stdout" ELSE @],
     endpoints |->
        [i \in DOMAIN cfg.endpoints |->
            [cfg.endpoints[i] EXCEPT
                !.destinations =
                    [j \in DOMAIN @ |-> setDestinationDefaults(@[j])]]]]

\* The environment: which WEBHOOK_PROXY_* variables are set, and to what.
NoEnv == <<>>

Envs ==
    {NoEnv,
     [port |-> 0],
     [port |-> 70000],
     [level |-> "loud"],
     [output |-> "file"],
     [output |-> "file", filePath |-> "/var/log/proxy.log"]}

\* applyEnvironmentOverrides: a variable that is set replaces the value.
applyEnvironmentOverrides(cfg, env) ==
    [cfg EXCEPT
        !.server.port = IF "port" \in DOMAIN env THEN env.port ELSE @,
        !.logging.level = IF "level" \in DOMAIN env THEN env.level ELSE @,
        !.logging.output = IF "output" \in DOMAIN env THEN env.output ELSE @,
        !.logging.filePath = IF "filePath" \in DOMAIN env THEN env.filePath ELSE @]

\* Mutant: the configuration is validated as parsed, before the defaults.
LoadConfigResultValidatingFirst(file, env) ==
    LET cfg == applyEnvironmentOverrides(setDefaultValues(file), env)
        err == validateConfig(file) IN
    IF err # "nil" THEN [err |-> err] ELSE [err |-> "nil", cfg |-> cfg]

\* LoadConfig once the file is read and parsed: defaults, overrides,
\* validation; it returns the configuration or the error.
LoadConfigResult(file, env) ==
    LET cfg == applyEnvironmentOverrides(setDefaultValues(file), env)
        err == validateConfig(cfg) IN
    IF err # "nil" THEN [err |-> err] ELSE [err |-> "nil", cfg |-> cfg]

\* A test or a caller hands a Config to validateConfig as it is.
ValidateConfig ==
    /\ boot.pc = "parsed"
    /\ boot' = [pc |-> "validated", file |-> boot.file, err |-> validateConfig(boot.file)]
    /\ UNCHANGED <<config, behaviour, reqs, calls, loops, metrics, clock, snapshot,
                   resetMark, admin>>

\* main: cfg, err := config.LoadConfig(*configPath)
LoadConfig(env) ==
    /\ boot.pc = "parsed"
    /\ boot' = [pc |-> "loaded", file |-> boot.file, env |-> env,
                result |-> LoadConfigResult(boot.file, env)]
    /\ UNCHANGED <<config, behaviour, reqs, calls, loops, metrics, clock, snapshot,
                   resetMark, admin>>

\* main: on an error log.Fatal and exit(1), else NewServer(cfg, log) and Start.
Start ==
    /\ boot.pc = "loaded"
    /\ boot' = [boot EXCEPT !.pc = IF boot.result.err # "nil" THEN "exited" ELSE "running"]
    /\ UNCHANGED <<config, behaviour, reqs, calls, loops, metrics, clock, snapshot,
                   resetMark, admin>>

ConfigStep ==
    \/ ValidateConfig
    \/ \E env \in Envs : LoadConfig(env)
    \/ Start

\* ---------------------------------------------------------- specifications
EngineStep ==
    \/ \E c \in DOMAIN calls : ForwardWebhook(c)
    \/ \E c \in DOMAIN calls : ForwardWebhookReturn(c)
    \/ \E i \in DOMAIN loops : LoopStep(i)

\* The second destination entry of the engine's handler: a sibling with the
\* same or another URL.
SiblingConfigs == [url : URLs, retries : {0, 1}, retryDelay : {2}, valid : {TRUE},
     headers : {NoHeaders}]

\* The engine alone: one Handler with two destination entries, the first of
\* any configuration, and one ForwardWebhook call on it.
Init ==
    /\ \E d1 \in DestinationConfigs, d2 \in SiblingConfigs :
           /\ d1.url = "u1"
           /\ config = [p \in {"/a"} |-> <<d1, d2>>]
    /\ behaviour = [p \in {"/a"} |-> <<"any", "any">>]
    /\ reqs = [r \in 1 .. MaxRequests |-> NewRequest]
    /\ calls = [c \in {0} |-> [path |-> "/a", req |-> 0, pc |-> "pending", headers |-> NoHeaders]]
    /\ loops = <<>>
    /\ metrics = [p \in {"/a"} |-> NewMetrics]
    /\ clock = 1
    /\ snapshot = [p \in DOMAIN config |-> NoSnapshot]
    /\ resetMark = [p \in DOMAIN config |-> NoReset]
    /\ admin = NoAdmin
    /\ boot = Booted

Next == EngineStep

Spec == Init /\ [][Next]_vars

\* The server: two registered endpoints and up to MaxRequests inbound POSTs.
ServerConfig ==
    [p \in Paths |->
        IF p = "/a"
        THEN <<[url |-> "u1", retries |-> 1, retryDelay |-> 2, valid |-> TRUE, headers |-> NoHeaders]>>
        ELSE <<[url |-> "u1", retries |-> 0, retryDelay |-> 0, valid |-> TRUE, headers |-> NoHeaders]>>]

ServerBehaviour ==
    [p \in Paths |-> IF p = "/a" THEN <<"flaky">> ELSE <<"down">>]

InitServer ==
    /\ config = ServerConfig
    /\ behaviour = ServerBehaviour
    /\ reqs = [r \in 1 .. MaxRequests |-> NewRequest]
    /\ calls = <<>>
    /\ loops = <<>>
    /\ metrics = [p \in Paths |-> NewMetrics]
    /\ clock = 1
    /\ snapshot = [p \in DOMAIN config |-> NoSnapshot]
    /\ resetMark = [p \in DOMAIN config |-> NoReset]
    /\ admin = NoAdmin
    /\ boot = Booted

HandlerStep ==
    \/ \E r \in 1 .. MaxRequests, path \in Paths, ok \in BOOLEAN : Receive(r, path, ok)
    \/ \E r \in 1 .. MaxRequests : GoForward(r)
    \/ \E r \in 1 .. MaxRequests : WriteResponse(r)

NextServer == HandlerStep \/ EngineStep

SpecServer == InitServer /\ [][NextServer]_vars

\* Isolation: destination A answers 200 at once, destination B refuses every
\* connection and is configured with retries > 0 and retry_delay > 0; they
\* are the two entries of one handler, in either order.
UpConfigs == [url : {"u1"}, retries : -1 .. MaxRetries, retryDelay : RetryDelays, valid : {TRUE},
     headers : {NoHeaders}]

DownConfigs == [url : URLs, retries : 1 .. MaxRetries, retryDelay : {2}, valid : {TRUE},
     headers : {NoHeaders}]

InitIsolation ==
    /\ \E a \in UpConfigs, b \in DownConfigs, aFirst \in BOOLEAN :
           /\ config = [p \in {"/a"} |-> IF aFirst THEN <<a, b>> ELSE <<b, a>>]
           /\ behaviour = [p \in {"/a"} |->
                              IF aFirst THEN <<"up", "down">> ELSE <<"down", "up">>]
    /\ reqs = [r \in 1 .. MaxRequests |-> NewRequest]
    /\ calls = [c \in {0} |-> [path |-> "/a", req |-> 0, pc |-> "pending", headers |-> NoHeaders]]
    /\ loops = <<>>
    /\ metrics = [p \in {"/a"} |-> NewMetrics]
    /\ clock = 1
    /\ snapshot = [p \in DOMAIN config |-> NoSnapshot]
    /\ resetMark = [p \in DOMAIN config |-> NoReset]
    /\ admin = NoAdmin
    /\ boot = Booted

IsUp(i) == behaviour[loops[i].path][loops[i].idx] = "up"

UpLoopStep == \E i \in DOMAIN loops : IsUp(i) /\ LoopStep(i)

\* The Go scheduler runs every runnable goroutine, the network call of A
\* completes; nothing is assumed of B's loop.
SpecIsolation == InitIsolation /\ [][Next]_vars /\ WF_vars(UpLoopStep)

\* Repeated calls: MaxRequests direct ForwardWebhook calls on one Handler
\* configured with one or two destination entries, of the same or of
\* different URLs; no Reset.
CallConfigs == [url : URLs, retries : {0}, retryDelay : {0}, valid : {TRUE},
     headers : {NoHeaders}]

InitCalls ==
    /\ \E d1 \in CallConfigs, d2 \in CallConfigs, n \in 1 .. 2 :
           config = [p \in {"/a"} |-> IF n = 1 THEN <<d1>> ELSE <<d1, d2>>]
    /\ behaviour = [p \in {"/a"} |-> <<"flaky", "flaky">>]
    /\ reqs = [r \in 1 .. MaxRequests |-> NewRequest]
    /\ calls = [c \in 1 .. MaxRequests |-> [path |-> "/a", req |-> 0, pc |-> "pending", headers |-> NoHeaders]]
    /\ loops = <<>>
    /\ metrics = [p \in {"/a"} |-> NewMetrics]
    /\ clock = 1
    /\ snapshot = [p \in DOMAIN config |-> NoSnapshot]
    /\ resetMark = [p \in DOMAIN config |-> NoReset]
    /\ admin = NoAdmin
    /\ boot = Booted

SpecCalls == InitCalls /\ [][Next]_vars

\* The registry under observation: one ForwardWebhook call on a Handler with
\* two destination entries, while GetMetrics and ResetMetrics are called at
\* any moment (as the /metrics and /metrics/reset handlers do).
RegistryConfigs == [url : URLs, retries : {0}, retryDelay : {0}, valid : {TRUE},
     headers : {NoHeaders}]

InitRegistry ==
    /\ \E d2 \in RegistryConfigs :
           config = [p \in {"/a"} |->
                        <<[url |-> "u1", retries |-> MaxRetries - 1, retryDelay |-> 0,
                           valid |-> TRUE, headers |-> NoHeaders], d2>>]
    /\ behaviour = [p \in {"/a"} |-> <<"varying", "varying">>]
    /\ reqs = [r \in 1 .. MaxRequests |-> NewRequest]
    /\ calls = [c \in {0} |-> [path |-> "/a", req |-> 0, pc |-> "pending", headers |-> NoHeaders]]
    /\ loops = <<>>
    /\ metrics = [p \in {"/a"} |-> NewMetrics]
    /\ clock = 1
    /\ snapshot = [p \in {"/a"} |-> NoSnapshot]
    /\ resetMark = [p \in {"/a"} |-> NoReset]
    /\ admin = NoAdmin
    /\ boot = Booted

RegistryStep ==
    \/ \E p \in DOMAIN metrics : HandlerGetMetrics(p)
    \/ \E p \in DOMAIN metrics : ResetMetrics(p)

NextRegistry == EngineStep \/ RegistryStep

SpecRegistry == InitRegistry /\ [][NextRegistry]_vars

\* Headers: one ForwardWebhook call with any forwarded headers on a Handler
\* whose destination has any configured headers and is retried once.
InitHeaders ==
    /\ \E hd \in HeaderMaps, ok \in BOOLEAN :
           config = [p \in {"/a"} |->
                        <<[url |-> "u1", retries |-> 1, retryDelay |-> 0, valid |-> ok,
                           headers |-> hd]>>]
    /\ behaviour = [p \in {"/a"} |-> <<"flaky">>]
    /\ reqs = [r \in 1 .. MaxRequests |-> NewRequest]
    /\ \E hf \in HeaderMaps :
           calls = [c \in {0} |-> [path |-> "/a", req |-> 0, pc |-> "pending", headers |-> hf]]
    /\ loops = <<>>
    /\ metrics = [p \in {"/a"} |-> NewMetrics]
    /\ clock = 1
    /\ snapshot = [p \in {"/a"} |-> NoSnapshot]
    /\ resetMark = [p \in {"/a"} |-> NoReset]
    /\ admin = NoAdmin
    /\ boot = Booted

SpecHeaders == InitHeaders /\ [][Next]_vars

\* The server with its metrics endpoints: two registered endpoints with the
\* same destination URL (the server behind it answers 200 to the POSTs of
\* "/a" and refuses the connections of "/b"), as many inbound webhooks as
\* there are endpoints, on either of them, and a client that sends
\* GET /metrics and POST /metrics/reset requests one after the other.
MetricsConfig ==
    [p \in Paths |->
        <<[url |-> "u1", retries |-> 0, retryDelay |-> 0, valid |-> TRUE,
           headers |-> NoHeaders]>>]

InitMetrics ==
    /\ config = MetricsConfig
    /\ behaviour = [p \in Paths |-> IF p = "/a" THEN <<"up">> ELSE <<"down">>]
    /\ reqs = [r \in 1 .. Cardinality(Paths) |-> NewRequest]
    /\ calls = <<>>
    /\ loops = <<>>
    /\ metrics = [p \in Paths |-> NewMetrics]
    /\ clock = 1
    /\ snapshot = [p \in Paths |-> NoSnapshot]
    /\ resetMark = [p \in Paths |-> NoReset]
    /\ admin = NoAdmin
    /\ boot = Booted

\* The webhooks of this scenario are POSTs whose body can be read.
WebhookStep ==
    \/ \E r \in DOMAIN reqs, path \in Paths : Receive(r, path, TRUE)
    \/ \E r \in DOMAIN reqs : GoForward(r)
    \/ \E r \in DOMAIN reqs : WriteResponse(r)

NextMetrics == WebhookStep \/ EngineStep \/ MetricsStep

SpecMetrics == InitMetrics /\ [][NextMetrics]_vars

\* The same server with two clients: one sends GET /metrics requests, the
\* other one POST /metrics/reset; chi serves each request in a goroutine of
\* its own and the two handlers share no lock.
MetricsGetStep ==
    \/ MetricsGetStart
    \/ \E p \in Paths : MetricsGetHandler(p)
    \/ MetricsGetRespond

NextAtomicity ==
    \/ WebhookStep
    \/ EngineStep
    \/ MetricsGetStep
    \/ \E p \in Paths : MetricsResetConcurrent(p)

SpecAtomicity == InitMetrics /\ [][NextAtomicity]_vars

\* Start-up: what a configuration file may hold.
FileDestinations ==
    [url : UrlTexts,
     method : {Chars(w) : w \in {"", "POST", "post", "TRACE"}},
     timeout : {-1, 0, 5}, retries : {-1, 0, 2}, retryDelay : {-1, 0, 2}]

ValidDestination ==
    [url |-> "http://example.com/hook", method |-> Chars("POST"), timeout |-> 5,
     retries |-> 1, retryDelay |-> 2]

FileDestinationLists ==
    {<<>>} \cup {<<d>> : d \in FileDestinations}
        \cup {<<ValidDestination, d>> :
                d \in {x \in FileDestinations :
                          x.method = Chars("POST") /\ x.timeout = 5 /\ x.retryDelay = 2}}

FilePaths == {Chars(w) : w \in {"", "hook", "/hook"}}

ValidEndpoint == [path |-> Chars("/hook"), destinations |-> <<ValidDestination>>]

FileEndpointLists ==
    {<<>>} \cup {<<[path |-> p, destinations |-> ds]>> :
                    p \in FilePaths, ds \in FileDestinationLists}
        \cup {<<ValidEndpoint, [path |-> p, destinations |-> ds]>> :
                    p \in FilePaths, ds \in {<<>>, <<ValidDestination>>}}

FileServers == [port : {-1, 0, 8080, 65535, 65536}, host : {""}]

FileLoggings ==
    [level : {"", "info", "verbose"}, format : {"", "json", "xml"},
     output : {"", "stdout", "file", "syslog"}, filePath : {"", "/var/log/proxy.log"}]

ValidLogging ==
    [level |-> "info", format |-> "json", output |-> "stdout", filePath |-> ""]

NoLogging == [level |-> "", format |-> "", output |-> "", filePath |-> ""]

\* Any server and logging section with or without one valid endpoint, and
\* any endpoint list under a few server and logging sections.
ConfigFiles ==
    [server : FileServers, logging : FileLoggings, endpoints : {<<>>, <<ValidEndpoint>>}]
        \cup [server : {sv \in FileServers : sv.port \in {0, 8080, 65536}},
              logging : {ValidLogging, NoLogging},
              endpoints : FileEndpointLists]

InitConfig ==
    /\ boot \in {[pc |-> "parsed", file |-> f] : f \in ConfigFiles}
    /\ config = <<>>
    /\ behaviour = <<>>
    /\ reqs = <<>>
    /\ calls = <<>>
    /\ loops = <<>>
    /\ metrics = <<>>
    /\ clock = 1
    /\ snapshot = <<>>
    /\ resetMark = <<>>
    /\ admin = NoAdmin

NextConfig == ConfigStep

SpecConfig == InitConfig /\ [][NextConfig]_vars

\* Termination: one ForwardWebhook call on a handler with two destination
\* entries; the first is of any retry count and validity, the second retries
\* once. The servers behind them answer in any way.
TerminationLoops == {<<0, 1>>, <<0, 2>>}

InitTermination ==
    /\ \E d1 \in DestinationConfigs :
           /\ d1.url = "u1" /\ d1.retryDelay = 0
           /\ config = [p \in {"/a"} |->
                  <<d1, [url |-> "u2", retries |-> 1, retryDelay |-> 2,
                         valid |-> TRUE, headers |-> NoHeaders]>>]
    /\ behaviour = [p \in {"/a"} |-> <<"any", "any">>]
    /\ reqs = [r \in 1 .. MaxRequests |-> NewRequest]
    /\ calls = [c \in {0} |-> [path |-> "/a", req |-> 0, pc |-> "pending", headers |-> NoHeaders]]
    /\ loops = <<>>
    /\ metrics = [p \in {"/a"} |-> NewMetrics]
    /\ clock = 1
    /\ snapshot = [p \in DOMAIN config |-> NoSnapshot]
    /\ resetMark = [p \in DOMAIN config |-> NoReset]
    /\ admin = NoAdmin
    /\ boot = Booted

\* The Go scheduler runs every goroutine that can run; every network call
\* completes (with a response, an error or the client's timeout) and every
\* time.Sleep returns.
SpecTermination ==
    InitTermination /\ [][Next]_vars
        /\ \A i \in TerminationLoops : WF_vars(LoopStep(i))

\* ------------------------------------------------------------------ claims
\* The history of a loop: which events of kind e it holds.
EvIdx(l, e) == {k \in DOMAIN l.trace : l.trace[k].ev = e}

NumEv(l, e) == Cardinality(EvIdx(l, e))

\* Delivery attempts made so far: sendRequest invocations.
Attempts(l) == NumEv(l, "send")

Ended(l) == l.pc = "done"

AllFailed(l) == Ended(l) /\ NumEv(l, "success") = 0

LoopsOf(p) == {i \in DOMAIN loops : loops[i].path = p}

LoopsOfURL(p, u) == {i \in LoopsOf(p) : DestCfg(loops[i]).url = u}

\* Events of kind e (and argument in args) over a set of loops.
EventsOf(ids, e, args) ==
    {<<i, k>> \in UNION {{i} \X DOMAIN loops[i].trace : i \in ids} :
        loops[i].trace[k].ev = e /\ loops[i].trace[k].arg \in args}

\* C1: a loop for a destination configured with retries = R >= 0 makes at
\* most R+1 delivery attempts, and exactly R+1 once it has ended with every
\* attempt failed, whatever the kinds of the failures.
C1_AttemptsAtMostRetriesPlusOne ==
    \A i \in DOMAIN loops :
        LET l == loops[i]
            R == DestCfg(l).retries IN
        R >= 0 =>
            /\ Attempts(l) <= R + 1
            /\ AllFailed(l) => Attempts(l) = R + 1

C1_Witness ==
    \E i \in DOMAIN loops :
        /\ DestCfg(loops[i]).retries = 2
        /\ AllFailed(loops[i])
        /\ Attempts(loops[i]) = 3
        /\ loops[i].lastOut.kind = "read_err"

\* C4: once an attempt of a loop has returned a status code in [200,300),
\* the loop has stopped: the success is the last event of its history (no
\* later attempt, retry wait or RecordFailure) and the loop has ended.
C4_StopsOnSuccess ==
    \A i \in DOMAIN loops :
        LET l == loops[i] IN
        \A k \in DOMAIN l.trace :
            l.trace[k].ev = "success" =>
                /\ k = Len(l.trace)
                /\ Ended(l)
                /\ l.trace[k].arg >= 200 /\ l.trace[k].arg < 300

C4_Witness ==
    \E i \in DOMAIN loops :
        /\ loops[i].maxAttempts = 3
        /\ Ended(loops[i])
        /\ Attempts(loops[i]) = 2
        /\ NumEv(loops[i], "success") = 1

\* C5 (amended): the latest attempt of a loop is recorded as a success iff
\* it produced a response with a status code in [200,300) whose body was
\* read without error; any other outcome (transport error, unreadable body
\* whatever the status code, request construction error, non-2xx response)
\* is recorded as a failure and, while attempts remain, is followed by the
\* same retry wait and the next attempt.
LastResult(l) ==
    LET ks == EvIdx(l, "success") \cup EvIdx(l, "failure") IN
    l.trace[CHOOSE k \in ks : \A j \in ks : j <= k]

C5_SuccessIff2xx ==
    \A i \in DOMAIN loops :
        LET l == loops[i]
            n == Len(l.trace) IN
        /\ l.pc \in {"sleeping", "done"} =>
              /\ l.lastOut # NoOutcome
              /\ LastResult(l).ev = "success" <=>
                     (l.lastOut.kind = "response"
                        /\ l.lastOut.code >= 200 /\ l.lastOut.code < 300)
        /\ \A k \in EvIdx(l, "failure") :
              IF l.trace[k].attempt < l.maxAttempts
              THEN /\ k < n
                   /\ l.trace[k + 1] = Ev("sleep", l.trace[k].attempt, RetryDelay(DestCfg(l)))
                   /\ k + 1 < n => l.trace[k + 2] = Ev("send", l.trace[k].attempt + 1, 0)
              ELSE k = n /\ Ended(l)

\* C5 as stated: the latest attempt is recorded as a success iff the status
\* code it returned is in [200,300).
C5_SuccessIffStatus2xx ==
    \A i \in DOMAIN loops :
        LET l == loops[i] IN
        l.pc \in {"sleeping", "done"} =>
            (LastResult(l).ev = "success" <=>
                (sendRequest(l.lastOut).statusCode >= 200
                    /\ sendRequest(l.lastOut).statusCode < 300))

C5_Witness ==
    \E i \in DOMAIN loops :
        /\ loops[i].pc = "sleeping"
        /\ loops[i].lastOut.kind = "response"
        /\ loops[i].lastOut.code = 300
        /\ loops[i].attempt = 2

\* C6: a loop calls RecordRequest exactly once, before its first delivery
\* attempt and never again on a retry, so that the registry's total_requests
\* (global and per destination URL) counts the loops that have started, not
\* their attempts.
C6_RecordRequestOnce ==
    /\ \A i \in DOMAIN loops :
           LET l == loops[i] IN
           IF l.pc = "start"
           THEN l.trace = <<>>
           ELSE /\ EvIdx(l, "request") = {1}
                /\ \A k \in EvIdx(l, "send") : k > 1
    /\ \A p \in DOMAIN metrics :
           /\ metrics[p].total = Cardinality({i \in LoopsOf(p) : loops[i].pc # "start"})
           /\ \A u \in URLs :
                  DestOf(metrics[p], u).total =
                      Cardinality({i \in LoopsOfURL(p, u) : loops[i].pc # "start"})

C6_Witness ==
    \E i \in DOMAIN loops :
        /\ Ended(loops[i])
        /\ Attempts(loops[i]) = 3
        /\ metrics[loops[i].path].total = 1

\* C8: a loop whose first attempt returns HTTP 200 ends with the history
\* RecordRequest, one attempt, RecordSuccess(200): one RecordRequest, one
\* RecordSuccess, no RecordFailure; and the registry's successful_requests
\* counts exactly the RecordSuccess events.
C8_FirstAttempt200 ==
    /\ \A i \in DOMAIN loops :
           LET l == loops[i] IN
           (l.attempt = 1 /\ l.pc # "inflight"
                /\ l.lastOut.kind = "response" /\ l.lastOut.code = 200) =>
               /\ Ended(l)
               /\ l.trace = <<Ev("request", 0, 0), Ev("send", 1, 0), Ev("success", 1, 200)>>
    /\ \A p \in DOMAIN metrics :
           /\ metrics[p].success =
                  Cardinality(EventsOf(LoopsOf(p), "success", StatusCodes))
           /\ \A u \in URLs :
                  DestOf(metrics[p], u).success =
                      Cardinality(EventsOf(LoopsOfURL(p, u), "success", StatusCodes))

C8_Witness ==
    \E i \in DOMAIN loops :
        /\ Ended(loops[i])
        /\ loops[i].lastOut.kind = "response" /\ loops[i].lastOut.code = 200
        /\ loops[i].attempt = 1
        /\ DestOf(metrics[loops[i].path], DestCfg(loops[i]).url) =
               [NewDest EXCEPT !.total = 1, !.success = 1,
                               !.latSum = loops[i].lastOut.duration,
                               !.latCount = 1, !.codes = Inc(EmptyMap, 200)]

\* The error a failed attempt leaves in lastErr and in the registry.
ErrOf(out) ==
    IF sendRequest(out).err # NoErr THEN sendRequest(out).err ELSE ErrNon2xx(out.code)

FailedLoops(p, u) == {i \in LoopsOfURL(p, u) : NumEv(loops[i], "failure") > 0}

\* C7: a loop for a destination with retries = R >= 0 whose every attempt
\* fails makes exactly R+1 RecordFailure calls, one per attempt 1..R+1, with
\* isRetry = FALSE on attempt 1 and TRUE on every later attempt; the
\* registry's failed_requests and retries (global and per URL) count exactly
\* those calls and those with isRetry = TRUE; every RecordFailure stores the
\* error of the attempt it records with the time of the call, so that once
\* the loop has ended (and no other loop fails on that URL) last_error is
\* the error of the loop's final attempt.
C7_State ==
    /\ \A i \in DOMAIN loops :
           LET l == loops[i]
               R == DestCfg(l).retries IN
           /\ \A k \in EvIdx(l, "failure") :
                  l.trace[k].arg = (IF l.trace[k].attempt > 1 THEN 1 ELSE 0)
           /\ (R >= 0 /\ AllFailed(l)) =>
                  /\ {l.trace[k].attempt : k \in EvIdx(l, "failure")} = 1 .. R + 1
                  /\ NumEv(l, "failure") = R + 1
                  /\ Cardinality({k \in EvIdx(l, "failure") : l.trace[k].arg = 1}) = R
                  /\ l.lastErr = ErrOf(l.lastOut)
    /\ \A p \in DOMAIN metrics :
           /\ metrics[p].failed = Cardinality(EventsOf(LoopsOf(p), "failure", {0, 1}))
           /\ metrics[p].retries = Cardinality(EventsOf(LoopsOf(p), "failure", {1}))
           /\ \A u \in URLs :
                  LET e == DestOf(metrics[p], u) IN
                  /\ e.failed = Cardinality(EventsOf(LoopsOfURL(p, u), "failure", {0, 1}))
                  /\ e.retries = Cardinality(EventsOf(LoopsOfURL(p, u), "failure", {1}))
                  /\ e.lastErrorTime < clock
                  /\ \A i \in FailedLoops(p, u) :
                         FailedLoops(p, u) = {i} =>
                             /\ e.lastError = loops[i].lastErr
                             /\ e.lastErrorTime > 0

C7_Step ==
    \A i \in DOMAIN loops :
        (i \in DOMAIN loops' /\ NumEv(loops'[i], "failure") > NumEv(loops[i], "failure")) =>
            LET l == loops'[i]
                e == DestOf(metrics'[l.path], DestCfg(l).url) IN
            /\ e.lastError = ErrOf(l.lastOut)
            /\ e.lastErrorTime = clock
            /\ clock' > clock

C7_RecordFailurePerAttempt == [](C7_State) /\ [][C7_Step]_vars

C7_Witness ==
    \E i \in DOMAIN loops :
        LET l == loops[i]
            e == DestOf(metrics[l.path], DestCfg(l).url) IN
        /\ DestCfg(l).retries = 2
        /\ AllFailed(l)
        /\ FailedLoops(l.path, DestCfg(l).url) = {i}
        /\ e.failed = 3 /\ e.retries = 2
        /\ e.lastError = ErrNon2xx(300)
        /\ metrics[l.path].failed > 3

\* C2: isolation.  A (answers 200 on its first attempt) and B (refuses every
\* connection, retries > 0, retry_delay > 0) are the two destinations of one
\* ForwardWebhook call.  A step of A's loop is enabled in every state in
\* which A's loop has not ended, whatever the state of B's loop; and with
\* only A's loop scheduled fairly, A's RecordSuccess is eventually in the
\* registry once the loops are spawned.
UpSpawned == \E i \in DOMAIN loops : IsUp(i)

UpRecorded ==
    \E i \in DOMAIN loops :
        /\ IsUp(i)
        /\ NumEv(loops[i], "success") = 1
        /\ DestOf(metrics[loops[i].path], DestCfg(loops[i]).url).success >= 1

UpNeverBlocked ==
    \A i \in DOMAIN loops : (IsUp(i) /\ ~Ended(loops[i])) => ENABLED LoopStep(i)

C2_Isolation == [](UpNeverBlocked) /\ (UpSpawned ~> UpRecorded)

\* A's success is in the registry while B, spawned before A, sleeps between
\* its first and second attempt.
C2_Witness ==
    \E i, j \in DOMAIN loops :
        /\ IsUp(i) /\ ~IsUp(j) /\ j[2] < i[2]
        /\ metrics[loops[i].path].success = 1
        /\ loops[j].pc = "sleeping" /\ loops[j].attempt = 1

\* C3: fire-and-forget.  ForwardWebhook can return in every state after it
\* has spawned its loops, and the handler can write its response in every
\* state after it has started the forwarding goroutine: neither waits for a
\* loop.
C3_FireAndForget ==
    /\ \A c \in DOMAIN calls : calls[c].pc = "spawned" => ENABLED ForwardWebhookReturn(c)
    /\ \A r \in 1 .. MaxRequests : reqs[r].pc = "respond" => ENABLED WriteResponse(r)

\* The response is written and ForwardWebhook has returned while the loop of
\* one payload sleeps between retries and the loop of another has not made
\* its first attempt.
C3_Witness ==
    \E r, q \in 1 .. MaxRequests :
        /\ reqs[r].pc = "done" /\ reqs[r].status = StatusAccepted
        /\ r \in DOMAIN calls /\ calls[r].pc = "returned"
        /\ loops[<<r, 1>>].pc = "sleeping"
        /\ reqs[q].pc = "done" /\ reqs[q].status = StatusAccepted
        /\ q \in DOMAIN calls /\ calls[q].pc = "returned"
        /\ loops[<<q, 1>>].pc = "start"

\* C9: two requests with the same input (path, body read or not) get the
\* same response (status and body), whatever their delivery loops did.
C9_SameInputSameResponse ==
    \A r, q \in 1 .. MaxRequests :
        (/\ reqs[r].pc = "done" /\ reqs[q].pc = "done"
         /\ reqs[r].path = reqs[q].path
         /\ reqs[r].bodyOk = reqs[q].bodyOk) =>
            /\ reqs[r].status = reqs[q].status
            /\ reqs[r].body = reqs[q].body

C9_Witness ==
    \E r, q \in 1 .. MaxRequests :
        /\ reqs[r].pc = "done" /\ reqs[q].pc = "done"
        /\ reqs[r].path = reqs[q].path
        /\ reqs[r].bodyOk /\ reqs[q].bodyOk
        /\ <<r, 1>> \in DOMAIN loops /\ <<q, 1>> \in DOMAIN loops
        /\ Ended(loops[<<r, 1>>]) /\ NumEv(loops[<<r, 1>>], "success") = 1
        /\ AllFailed(loops[<<q, 1>>]) /\ Attempts(loops[<<q, 1>>]) = 2
        /\ reqs[r].status = StatusAccepted /\ reqs[q].status = StatusAccepted

\* C10: a request whose body cannot be read is answered with 500 and is
\* over; no ForwardWebhook call and no delivery loop exists for it, and the
\* step that handles it leaves the calls, the loops and every metrics
\* registry unchanged.
C10_State ==
    \A r \in 1 .. MaxRequests :
        (reqs[r].pc # "idle" /\ ~reqs[r].bodyOk) =>
            /\ reqs[r].pc = "done"
            /\ reqs[r].status = StatusInternalServerError
            /\ r \notin DOMAIN calls
            /\ \A i \in DOMAIN loops : i[1] # r

C10_Step ==
    \A r \in 1 .. MaxRequests :
        (reqs'[r] # reqs[r] /\ ~reqs'[r].bodyOk) =>
            /\ metrics' = metrics
            /\ loops' = loops
            /\ calls' = calls

C10_BodyReadError == [](C10_State) /\ [][C10_Step]_vars

C10_Witness ==
    \E r, q \in 1 .. MaxRequests :
        /\ reqs[r].pc = "done" /\ ~reqs[r].bodyOk
        /\ reqs[r].status = StatusInternalServerError
        /\ reqs[q].path = reqs[r].path /\ reqs[q].bodyOk /\ r < q
        /\ metrics[reqs[r].path].total = 1

\* C11: a ForwardWebhook call on a handler with N destination entries
\* starts exactly N delivery loops, one per entry; and (no Reset) once the
\* loops of the k calls made so far are all past RecordRequest, the
\* registry's total_requests is k*N and each URL's total_requests is k times
\* the number of entries with that URL.
LoopsOfCall(c) == {i \in DOMAIN loops : i[1] = c}

StartedCalls(p) == {c \in DOMAIN calls : calls[c].path = p /\ calls[c].pc # "pending"}

EntriesWithURL(p, u) == {k \in 1 .. Len(config[p]) : config[p][k].url = u}

C11_OneLoopPerEntry ==
    /\ \A c \in DOMAIN calls :
           LET N == Len(config[calls[c].path]) IN
           IF calls[c].pc = "pending"
           THEN LoopsOfCall(c) = {}
           ELSE /\ LoopsOfCall(c) = {<<c, k>> : k \in 1 .. N}
                /\ Cardinality(LoopsOfCall(c)) = N
                /\ \A k \in 1 .. N :
                       loops[<<c, k>>].idx = k /\ loops[<<c, k>>].path = calls[c].path
    /\ \A p \in DOMAIN metrics :
           LET k == Cardinality(StartedCalls(p))
               N == Len(config[p]) IN
           (\A c \in StartedCalls(p) : \A i \in LoopsOfCall(c) : loops[i].pc # "start") =>
               /\ metrics[p].total = k * N
               /\ \A u \in URLs :
                      DestOf(metrics[p], u).total = k * Cardinality(EntriesWithURL(p, u))

\* Two calls on a handler whose two entries have the same URL: 4 requests
\* on that URL, while a loop is still in flight.
C11_Witness ==
    /\ Len(config["/a"]) = 2
    /\ config["/a"][1].url = config["/a"][2].url
    /\ Cardinality(StartedCalls("/a")) = 2
    /\ \A i \in DOMAIN loops : loops[i].pc # "start"
    /\ \E i \in DOMAIN loops : loops[i].pc = "inflight"
    /\ metrics["/a"].total = 4
    /\ DestOf(metrics["/a"], config["/a"][1].url).total = 4

\* ---- the registry as GetMetrics shows it
\* The length of loop i's history at the latest Reset of p's registry.
Mark(p, i) == IF i \in DOMAIN resetMark[p].len THEN resetMark[p].len[i] ELSE 0

\* The Record* calls of kind e (argument in args) that loops ids have
\* completed since the latest Reset.
RecordsSince(p, ids, e, args) == {x \in EventsOf(ids, e, args) : x[2] > Mark(p, x[1])}

AllRecordsSince(p) ==
    RecordsSince(p, LoopsOf(p), "request", {0})
        \cup RecordsSince(p, LoopsOf(p), "success", StatusCodes)
        \cup RecordsSince(p, LoopsOf(p), "failure", {0, 1})

ResetJustBefore(p) == resetMark[p].happened /\ AllRecordsSince(p) = {}

ZeroView ==
    [total_requests |-> 0, successful_requests |-> 0, failed_requests |-> 0,
     retries |-> 0, avg_response_time_ms |-> 0, status_codes |-> <<>>,
     destinations |-> <<>>]

\* C12: a GetMetrics that follows a Reset with no Record* call in between
\* returns zero counters, an empty status-code histogram, average latency 0
\* and an empty per-destination mapping, whatever was recorded before.
C12_State ==
    \A p \in DOMAIN metrics : ResetJustBefore(p) => GetMetrics(metrics[p]) = ZeroView

C12_Step ==
    \A p \in DOMAIN metrics :
        (snapshot'[p] # snapshot[p] /\ ResetJustBefore(p)) => snapshot'[p].view = ZeroView

C12_ResetThenGetMetrics == [](C12_State) /\ [][C12_Step]_vars

\* The snapshot is all zero although a loop had recorded a request, a
\* failure and a success on its retry before the Reset.
C12_Witness ==
    /\ snapshot["/a"].taken
    /\ snapshot["/a"].view = ZeroView
    /\ ResetJustBefore("/a")
    /\ \E i \in LoopsOf("/a") :
           /\ NumEv(loops[i], "failure") = 1 /\ NumEv(loops[i], "success") = 1
           /\ Mark("/a", i) = Len(loops[i].trace)

\* What a view reports for destination u (0 when u has no entry).
DestField(v, u, f) == IF u \in DOMAIN v.destinations THEN v.destinations[u][f] ELSE 0

\* The view reports the Record* calls completed by the loops of p.
ReportsCalls(v, p) ==
    /\ v.total_requests = Cardinality(EventsOf(LoopsOf(p), "request", {0}))
    /\ v.successful_requests = Cardinality(EventsOf(LoopsOf(p), "success", StatusCodes))
    /\ v.failed_requests = Cardinality(EventsOf(LoopsOf(p), "failure", {0, 1}))
    /\ v.retries = Cardinality(EventsOf(LoopsOf(p), "failure", {1}))
    /\ \A u \in URLs :
           /\ DestField(v, u, "total_requests") =
                  Cardinality(EventsOf(LoopsOfURL(p, u), "request", {0}))
           /\ DestField(v, u, "successful_requests") =
                  Cardinality(EventsOf(LoopsOfURL(p, u), "success", StatusCodes))
           /\ DestField(v, u, "failed_requests") =
                  Cardinality(EventsOf(LoopsOfURL(p, u), "failure", {0, 1}))
           /\ DestField(v, u, "retries") =
                  Cardinality(EventsOf(LoopsOfURL(p, u), "failure", {1}))

\* C13: no lost updates.  As long as the registry has not been reset, after
\* any interleaving of the loops GetMetrics reports as total_requests,
\* successful_requests, failed_requests and retries the numbers of
\* RecordRequest, RecordSuccess, RecordFailure and RecordFailure(isRetry)
\* calls completed so far, globally and per destination URL.
C13_State ==
    \A p \in DOMAIN metrics :
        ~resetMark[p].happened => ReportsCalls(GetMetrics(metrics[p]), p)

C13_Step ==
    \A p \in DOMAIN metrics :
        (snapshot'[p] # snapshot[p] /\ ~resetMark[p].happened) =>
            ReportsCalls(snapshot'[p].view, p)

C13_NoLostUpdates == [](C13_State) /\ [][C13_Step]_vars

\* Two loops on different URLs have both failed, one of them twice.
C13_Witness ==
    /\ ~resetMark["/a"].happened
    /\ snapshot["/a"].taken
    /\ snapshot["/a"].view.total_requests = 2
    /\ snapshot["/a"].view.failed_requests = 3
    /\ snapshot["/a"].view.retries = 1
    /\ DestField(snapshot["/a"].view, "u2", "failed_requests") = 1
    /\ DestField(snapshot["/a"].view, "u1", "failed_requests") = 2

RECURSIVE SumOver(_, _)
SumOver(f, S) ==
    IF S = {} THEN 0
    ELSE LET x == CHOOSE y \in S : TRUE IN f[x] + SumOver(f, S \ {x})

\* Each global counter of the view is the sum of that counter over the
\* per-destination entries of the view.
Untorn(v) ==
    \A f \in {"total_requests", "successful_requests", "failed_requests", "retries"} :
        v[f] = SumOver([u \in DOMAIN v.destinations |-> v.destinations[u][f]],
                       DOMAIN v.destinations)

\* C14: GetMetrics never returns a torn state.  With Record* and Reset
\* called at any moment, every view is the registry as it is between two
\* complete operations, and in it each global counter (total, successful,
\* failed, retries) is the sum of that counter over the per-destination
\* entries of the same view.
C14_State == \A p \in DOMAIN metrics : Untorn(GetMetrics(metrics[p]))

C14_Step ==
    \A p \in DOMAIN metrics :
        snapshot'[p] # snapshot[p] =>
            /\ snapshot'[p].view = GetMetrics(metrics[p])
            /\ metrics'[p] = metrics[p]
            /\ Untorn(snapshot'[p].view)

C14_NoTornSnapshot == [](C14_State) /\ [][C14_Step]_vars

\* A view taken after a Reset that fell between a loop's RecordRequest and
\* its RecordFailure: no request, one failure, globally and for the URL.
C14_Witness ==
    /\ resetMark["/a"].happened
    /\ snapshot["/a"].taken
    /\ snapshot["/a"].view.total_requests = 0
    /\ snapshot["/a"].view.failed_requests = 1
    /\ DestField(snapshot["/a"].view, "u1", "total_requests") = 0
    /\ DestField(snapshot["/a"].view, "u1", "failed_requests") = 1

\* The loops among ids whose RecordSuccess came after the latest Reset.
SuccessesSince(p, ids) ==
    {i \in ids : \E k \in EvIdx(loops[i], "success") : k > Mark(p, i)}

\* The mean of the durations of those successes, in thousandths of a
\* millisecond (a loop succeeds at most once, on its latest attempt).
MeanSince(p, ids) ==
    LET S == SuccessesSince(p, ids)
        n == Cardinality(S)
        sum == SumOver([i \in S |-> loops[i].lastOut.duration], S) IN
    IF n = 0 THEN 0 ELSE (sum * 1000) \div n

ReportsMean(v, p) ==
    /\ v.avg_response_time_ms = MeanSince(p, LoopsOf(p))
    /\ \A u \in URLs :
           DestField(v, u, "avg_response_time_ms") = MeanSince(p, LoopsOfURL(p, u))

\* C15: the average latency GetMetrics returns is the sum of the durations
\* passed to RecordSuccess since the latest Reset divided by the number of
\* those calls (in milliseconds), 0 when there is none; the duration of a
\* failed attempt is never part of it.
C15_State == \A p \in DOMAIN metrics : ReportsMean(GetMetrics(metrics[p]), p)

C15_Step ==
    \A p \in DOMAIN metrics :
        snapshot'[p] # snapshot[p] => ReportsMean(snapshot'[p].view, p)

C15_AverageLatency == [](C15_State) /\ [][C15_Step]_vars

\* A success of 10 ms before the Reset; since the Reset one failed attempt
\* and one success of 30 ms: the average is 30 ms.
C15_Witness ==
    /\ resetMark["/a"].happened
    /\ snapshot["/a"].taken
    /\ snapshot["/a"].view.avg_response_time_ms = 30000
    /\ snapshot["/a"].view.failed_requests = 1
    /\ snapshot["/a"].view.successful_requests = 1
    /\ \E i \in LoopsOf("/a") :
           /\ NumEv(loops[i], "success") = 1
           /\ loops[i].lastOut.duration = 10
           /\ Mark("/a", i) = Len(loops[i].trace)

\* The attempts started up to index k of a history.
SendsUpTo(l, k) == {j \in EvIdx(l, "send") : j <= k}

\* C16: the attempts of one loop are strictly sequential.  At most one
\* attempt is in flight (every attempt but the latest has completed, and the
\* latest is in flight exactly when the loop is inside sendRequest); the
\* attempts are numbered 1, 2, 3, ... in the order they start; attempt k+1
\* starts right after the retry wait that followed the failure of attempt k.
C16_SequentialAttempts ==
    \A i \in DOMAIN loops :
        LET l == loops[i]
            n == Len(l.trace)
            completed == NumEv(l, "success") + NumEv(l, "failure") IN
        /\ Attempts(l) - completed \in {0, 1}
        /\ Attempts(l) - completed = 1 <=> l.pc = "inflight"
        /\ l.pc = "inflight" <=> (n > 0 /\ l.trace[n].ev = "send")
        /\ \A k \in EvIdx(l, "send") :
               LET a == l.trace[k].attempt IN
               /\ a = Cardinality(SendsUpTo(l, k))
               /\ IF a = 1
                  THEN k = 2 /\ l.trace[1].ev = "request"
                  ELSE /\ l.trace[k - 1].ev = "sleep" /\ l.trace[k - 1].attempt = a - 1
                       /\ l.trace[k - 2].ev = "failure" /\ l.trace[k - 2].attempt = a - 1
                       /\ l.trace[k - 3].ev = "send" /\ l.trace[k - 3].attempt = a - 1
               /\ k < n => (l.trace[k + 1].ev \in {"success", "failure"}
                               /\ l.trace[k + 1].attempt = a)
        /\ l.pc \in {"inflight", "sleeping"} => l.attempt = Attempts(l)

\* The third attempt of a loop is in flight, after two failures and two
\* retry waits.
C16_Witness ==
    \E i \in DOMAIN loops :
        /\ loops[i].pc = "inflight"
        /\ loops[i].attempt = 3
        /\ NumEv(loops[i], "failure") = 2
        /\ NumEv(loops[i], "sleep") = 2

\* The values a header map holds for the header name K (names are compared
\* as HTTP compares them, by canonical form).
ValuesFor(m, K) == {m[k] : k \in {x \in DOMAIN m : CanonicalHeaderKey(x) = K}}

CanonicalKeys == {CanonicalHeaderKey(k) : k \in HeaderKeys}

\* h is the forwarded headers F overridden by the destination's headers D.
Overridden(h, F, D) ==
    /\ DOMAIN h \subseteq CanonicalKeys
    /\ \A K \in CanonicalKeys :
           IF ValuesFor(D, K) # {}
           THEN K \in DOMAIN h /\ h[K] \in ValuesFor(D, K)
           ELSE IF ValuesFor(F, K) # {}
           THEN K \in DOMAIN h /\ h[K] \in ValuesFor(F, K)
           ELSE K \notin DOMAIN h

\* Each header name is written once in the map.
UniqueNames(m) ==
    \A k1, k2 \in DOMAIN m : CanonicalHeaderKey(k1) = CanonicalHeaderKey(k2) => k1 = k2

\* C17: the header sent on every attempt, the first and each retry alike,
\* is the forwarded headers overridden by the destination's configured
\* headers: a name both have is sent with the destination's value, a name
\* only one has with that one's value, and no other name is sent.  When
\* each map writes a name once, every attempt sends the same header.
C17_DestinationHeadersOverride ==
    \A i \in DOMAIN loops :
        LET l == loops[i]
            F == calls[l.call].headers
            D == DestCfg(l).headers IN
        /\ \A a \in DOMAIN l.sent : Overridden(l.sent[a], F, D)
        /\ (UniqueNames(F) /\ UniqueNames(D)) =>
               \A a, b \in DOMAIN l.sent : l.sent[a] = l.sent[b]
        /\ Len(l.sent) =
               Cardinality({k \in EvIdx(l, "failure") \cup EvIdx(l, "success") :
                               DestCfg(l).valid})

\* Both attempts of a loop have sent X-A with the destination's value and
\* X-B with the forwarded value.
C17_Witness ==
    \E i \in DOMAIN loops :
        LET l == loops[i] IN
        /\ Len(l.sent) = 2
        /\ calls[l.call].headers = [k \in {"x-a", "X-B"} |-> "v1"]
        /\ DestCfg(l).headers = [k \in {"X-A"} |-> "v2"]
        /\ l.sent[1] = [k \in {"X-A", "X-B"} |-> IF k = "X-A" THEN "v2" ELSE "v1"]
        /\ l.sent[2] = l.sent[1]

\* ---- side effects of a delivery attempt
EffectsBy(l, who) == SelectSeq(l.effects, LAMBDA e : e.by = who)

RecordsBy(l, who) == SelectSeq(l.effects, LAMBDA e : e.by = who /\ e.op # "log")

LogsBy(l, who) == SelectSeq(l.effects, LAMBDA e : e.by = who /\ e.op = "log")

\* C18 as stated: sendRequest makes no Record* call and emits no log event,
\* whether the attempt succeeds or fails.
C18_SendRequestNoSideEffect ==
    \A i \in DOMAIN loops : EffectsBy(loops[i], "sendRequest") = <<>>

\* C18 (amended): a sendRequest that returns without error (a response
\* whose body was read, whatever its status code) makes no Record* call and
\* emits no log event, and its caller records the attempt (RecordSuccess
\* for 2xx, RecordFailure otherwise); a sendRequest that returns an error
\* (request construction, transport, unreadable body) itself makes exactly
\* one RecordFailure call and emits one log event, and its caller makes no
\* Record* call for that attempt.
C18_SendRequestSideEffects ==
    \A i \in DOMAIN loops :
        LET l == loops[i]
            res == sendRequest(l.lastOut) IN
        IF l.lastOut = NoOutcome
        THEN l.effects = <<>>
        ELSE IF res.err = NoErr
        THEN /\ EffectsBy(l, "sendRequest") = <<>>
             /\ Len(RecordsBy(l, "forwardToDestination")) = 1
             /\ RecordsBy(l, "forwardToDestination")[1].op =
                    (IF res.statusCode >= 200 /\ res.statusCode < 300
                     THEN "RecordSuccess" ELSE "RecordFailure")
        ELSE /\ Len(RecordsBy(l, "sendRequest")) = 1
             /\ RecordsBy(l, "sendRequest")[1].op = "RecordFailure"
             /\ Len(LogsBy(l, "sendRequest")) = 1
             /\ RecordsBy(l, "forwardToDestination") = <<>>

\* A loop whose second attempt failed at transport level: sendRequest has
\* recorded the failure (a retry), the registry shows both failures.
C18_Witness ==
    \E i \in DOMAIN loops :
        LET l == loops[i] IN
        /\ l.lastOut = TransportErr
        /\ l.attempt = 2 /\ l.pc = "done"
        /\ Len(RecordsBy(l, "sendRequest")) = 1
        /\ DestOf(metrics[l.path], DestCfg(l).url).failed = 2
        /\ DestOf(metrics[l.path], DestCfg(l).url).retries = 1
        /\ DestOf(metrics[l.path], DestCfg(l).url).lastError = ErrRequest

\* C19: an attempt that fails at transport level, or whose request cannot
\* be constructed, returns status code 0, a nil body and a non-nil error; it
\* is recorded as a failure with that error and never as a success.
C19_TransportFailureOutcome ==
    \A i \in DOMAIN loops :
        LET l == loops[i]
            res == sendRequest(l.lastOut) IN
        l.lastOut.kind \in {"transport_err", "create_err"} =>
            /\ res.statusCode = 0
            /\ res.bodyNil
            /\ res.err # NoErr
            /\ LastResult(l).ev = "failure"
            /\ l.lastErr = res.err
            /\ \A k \in DOMAIN l.effects : l.effects[k].op # "RecordSuccess"
            /\ NumEv(l, "success") = 0
            /\ DestOf(metrics[l.path], DestCfg(l).url).failed >= 1

\* One loop has ended on a request that could not be constructed, its
\* sibling on a transport error; no success is in the registry.
C19_Witness ==
    \E i, j \in DOMAIN loops :
        /\ loops[i].lastOut = CreateErr /\ Ended(loops[i])
        /\ loops[j].lastOut = TransportErr /\ Ended(loops[j])
        /\ loops[j].attempt = 2
        /\ metrics[loops[i].path].success = 0

\* C20: every "Webhook forwarding failed" log event of a failed attempt
\* carries the number of that attempt within its loop and the loop's
\* maximum number of attempts, for transport errors as for non-2xx
\* responses.
C20_FailureLogCarriesAttempt ==
    \A i \in DOMAIN loops :
        LET l == loops[i] IN
        \A k \in DOMAIN l.effects :
            (l.effects[k].op = "log" /\ l.effects[k].msg = "Webhook forwarding failed") =>
                /\ l.effects[k].attempt = l.effects[k].at
                /\ l.effects[k].maxAttempts = l.maxAttempts

\* ---- one registry per endpoint
\* The view that Handler.GetMetrics of endpoint q returns reports, for
\* destination u, the Record* calls that the loops `ids` have completed since
\* the registry of q was last reset.
ReportsLoops(v, q, u, ids) ==
    /\ DestField(v, u, "total_requests") =
           Cardinality(RecordsSince(q, ids, "request", {0}))
    /\ DestField(v, u, "successful_requests") =
           Cardinality(RecordsSince(q, ids, "success", StatusCodes))
    /\ DestField(v, u, "failed_requests") =
           Cardinality(RecordsSince(q, ids, "failure", {0, 1}))

\* The loops of every endpoint that deliver to URL u.
LoopsToURL(u) == UNION {LoopsOfURL(p, u) : p \in DOMAIN config}

C21_State ==
    \A q \in DOMAIN config, u \in URLs :
        ReportsLoops(GetMetrics(metrics[MetricsOf(q)]), q, u, LoopsOfURL(q, u))

C21_Step ==
    \A q \in DOMAIN config, u \in URLs :
        (snapshot'[q] # snapshot[q] /\ snapshot'[q].taken) =>
            ReportsLoops(snapshot'[q].view, q, u, LoopsOfURL(q, u))

NoRetries(l) == DestCfg(l).retries <= 0

\* The retry counters a loop can touch: the global one and its destination's.
RetryCounters(m, url) == <<m.retries, DestOf(m, url).retries>>

\* C22: a loop for a destination configured with retries <= 0 makes exactly
\* one attempt; when that attempt fails, exactly one failure is recorded,
\* with isRetry = false, the loop does not wait and has ended.
C22_State ==
    \A i \in DOMAIN loops :
        LET l == loops[i] IN
        NoRetries(l) =>
            /\ l.pc # "start" => Attempts(l) = 1
            /\ l.pc # "sleeping"
            /\ NumEv(l, "sleep") = 0
            /\ l.lastErr # NoErr =>
                   /\ Ended(l)
                   /\ NumEv(l, "failure") = 1
                   /\ EventsOf({i}, "failure", {1}) = {}
                   /\ NumRecordFailure(l.effects) = 1

\* C22, the registry: no step of such a loop changes a retry counter.
C22_Step ==
    \A i \in DOMAIN loops :
        LET l == loops[i]
            m == MetricsOf(l.path) IN
        (NoRetries(l) /\ loops'[i] # l) =>
            RetryCounters(metrics'[m], DestCfg(l).url) =
                RetryCounters(metrics[m], DestCfg(l).url)

C22_NoRetriesOneAttempt == [](C22_State) /\ [][C22_Step]_vars

\* A destination configured with retries = -1 and one with retries = 0 have
\* both failed their only attempt and ended; no retry was counted.
C22_Witness ==
    /\ \E i \in DOMAIN loops :
           /\ DestCfg(loops[i]).retries = -1
           /\ Ended(loops[i]) /\ loops[i].lastErr = ErrRequest
    /\ \E i \in DOMAIN loops :
           /\ DestCfg(loops[i]).retries = 0
           /\ Ended(loops[i]) /\ loops[i].lastErr # NoErr
    /\ metrics["/a"].failed = 2
    /\ metrics["/a"].retries = 0

\* ---- configuration
AllowedMethods ==
    {<<"G", "E", "T">>, <<"P", "O", "S", "T">>, <<"P", "U", "T">>,
     <<"D", "E", "L", "E", "T", "E">>, <<"P", "A", "T", "C", "H">>,
     <<"H", "E", "A", "D">>, <<"O", "P", "T", "I", "O", "N", "S">>}

RequestURIs == {"/hook", "http://example.com/hook"}

DestinationsOf(cfg) ==
    UNION {{cfg.endpoints[i].destinations[j] : j \in DOMAIN cfg.endpoints[i].destinations} :
              i \in DOMAIN cfg.endpoints}

EndpointsOf(cfg) == {cfg.endpoints[i] : i \in DOMAIN cfg.endpoints}

\* The defects the claim lists, the method's apart.
ListedDefect(cfg) ==
    \/ Len(cfg.endpoints) = 0
    \/ \E e \in EndpointsOf(cfg) : Len(e.path) = 0 \/ e.path[1] # "/"
    \/ \E e \in EndpointsOf(cfg) : Len(e.destinations) = 0
    \/ \E d \in DestinationsOf(cfg) : d.url = "" \/ d.url \notin RequestURIs
    \/ \E d \in DestinationsOf(cfg) : d.timeout < 0 \/ d.retries < 0 \/ d.retryDelay < 0
    \/ cfg.server.port \notin 0 .. 65535
    \/ cfg.logging.level \notin {"debug", "info", "warn", "error"}
    \/ cfg.logging.format \notin {"json", "text"}
    \/ cfg.logging.output \notin {"stdout", "file"}
    \/ cfg.logging.output = "file" /\ cfg.logging.filePath = ""

\* C23 as stated: validateConfig returns an error iff the configuration has
\* one of the listed defects, a destination method outside {GET, POST, PUT,
\* DELETE, PATCH, HEAD, OPTIONS} being one of them.
C23_ValidateConfigRejects ==
    boot.pc = "validated" =>
        (boot.err # "nil" <=>
            \/ ListedDefect(boot.file)
            \/ \E d \in DestinationsOf(boot.file) : d.method \notin AllowedMethods)

\* C23 (amended): the method is compared in upper case; "post" is accepted.
C23_ValidateConfigRejectsUpper ==
    boot.pc = "validated" =>
        (boot.err # "nil" <=>
            \/ ListedDefect(boot.file)
            \/ \E d \in DestinationsOf(boot.file) : ToUpper(d.method) \notin AllowedMethods)

\* validateConfig has returned nil for a destination with method "post".
C23_Witness ==
    /\ boot.pc = "validated"
    /\ boot.err = "nil"
    /\ \E d \in DestinationsOf(boot.file) : d.method = <<"p", "o", "s", "t">>

\* The file with every negative retries value written as 0.
WithoutNegativeRetries(file) ==
    [file EXCEPT !.endpoints =
        [i \in DOMAIN @ |->
            [@[i] EXCEPT !.destinations =
                [j \in DOMAIN @ |->
                    [@[j] EXCEPT !.retries = IF @ < 0 THEN 0 ELSE @]]]]]

\* C24: LoadConfig never fails because of a negative retries value (it does
\* with the file what it does with the same file holding 0 instead), and
\* after a successful LoadConfig every destination has retries >= 0: 0 where
\* the file had a negative value, the file's value elsewhere.
C24_NegativeRetriesNormalized ==
    boot.pc = "loaded" =>
        /\ boot.result.err # "retries cannot be negative"
        /\ boot.result = LoadConfigResult(WithoutNegativeRetries(boot.file), boot.env)
        /\ boot.result.err = "nil" =>
               \A i \in DOMAIN boot.file.endpoints :
                   \A j \in DOMAIN boot.file.endpoints[i].destinations :
                       LET inFile == boot.file.endpoints[i].destinations[j].retries
                           loaded == boot.result.cfg.endpoints[i].destinations[j].retries
                       IN loaded = (IF inFile < 0 THEN 0 ELSE inFile)

\* LoadConfig has succeeded on a file whose destination has retries = -1.
C24_Witness ==
    /\ boot.pc = "loaded"
    /\ boot.result.err = "nil"
    /\ \E d \in DestinationsOf(boot.file) : d.retries = -1
    /\ \A d \in DestinationsOf(boot.result.cfg) : d.retries = 0

\* C25: after a successful LoadConfig a destination's retry_delay is the
\* 1-second default where the file had 0 and the destination's retries is
\* greater than 0, and the file's value elsewhere; with retries = 0 and
\* retry_delay = 0 it is still 0.
C25_RetryDelayDefaultOnlyWithRetries ==
    (boot.pc = "loaded" /\ boot.result.err = "nil") =>
        \A i \in DOMAIN boot.file.endpoints :
            \A j \in DOMAIN boot.file.endpoints[i].destinations :
                LET inFile == boot.file.endpoints[i].destinations[j]
                    loaded == boot.result.cfg.endpoints[i].destinations[j]
                IN loaded.retryDelay =
                       (IF inFile.retryDelay = 0 /\ loaded.retries > 0
                        THEN 1 ELSE inFile.retryDelay)

\* ---- the webhook response
\* C26: a POST to a registered endpoint whose body was read is answered with
\* status 200, whatever its delivery loops have done or not done by then.
C26_AnsweredWith200 ==
    \A r \in DOMAIN reqs :
        (reqs[r].pc = "done" /\ reqs[r].bodyOk) => reqs[r].status = 200

\* ---- /metrics after /metrics/reset
\* GET /metrics has read every handler and is about to answer, the request
\* served before it was a POST /metrics/reset, and no webhook was received
\* since that one was answered.
GetAfterReset ==
    /\ admin.pc = "get" /\ admin.todo = {}
    /\ admin.last = "reset"
    /\ Received = admin.received

GlobalZero ==
    /\ MetricsResponse.global.total_requests = 0
    /\ MetricsResponse.global.successful_requests = 0
    /\ MetricsResponse.global.failed_requests = 0

\* C27 as stated: after POST /metrics/reset has completed, with no webhook
\* received in between, GET /metrics reports the global total_requests,
\* successful_requests and failed_requests as 0.
C27_ResetThenGetZero == GetAfterReset => GlobalZero

\* C27 (amended): the same, provided no webhook was being processed while
\* the reset was served (the delivery loops of every webhook received before
\* it had ended when it arrived, and none was received before its answer).
C27_IdleResetThenGetZero == (GetAfterReset /\ admin.quiet) => GlobalZero

\* Both endpoints had recorded a request (a success on "/a", a failure on
\* "/b") before the reset; GET /metrics then reports zero.
C27_Witness ==
    /\ GetAfterReset /\ admin.quiet
    /\ GlobalZero
    /\ \A p \in Paths :
           /\ resetMark[p].happened
           /\ \E i \in LoopsOf(p) : Mark(p, i) >= 2

\* ---- termination of the delivery loop
\* The loop has ended right after its first successful attempt or after its
\* last failed attempt.
EndsAfterSuccessOrLastFailure(l, most) ==
    LET last == l.trace[Len(l.trace)] IN
    \/ /\ last.ev = "success"
       /\ NumEv(l, "success") = 1
    \/ /\ last.ev = "failure"
       /\ NumEv(l, "success") = 0
       /\ Attempts(l) = most

\* A started loop never makes more than `most` attempts and, once it has
\* ended, has ended at one of the two places.
BoundedLoop(l, most) ==
    /\ Attempts(l) <= most
    /\ Ended(l) => EndsAfterSuccessOrLastFailure(l, most)

EveryLoopEnds ==
    \A i \in TerminationLoops :
        (i \in DOMAIN loops) ~> (i \in DOMAIN loops /\ Ended(loops[i]))

\* C28 as stated: every delivery loop started by ForwardWebhook reaches its
\* end after at most retries+1 attempts, right after its first successful
\* attempt or after its last failed attempt.
C28_EndsWithinRetriesPlusOne ==
    /\ [](\A i \in DOMAIN loops : BoundedLoop(loops[i], DestCfg(loops[i]).retries + 1))
    /\ EveryLoopEnds

\* C28 (amended): every delivery loop started by ForwardWebhook reaches its
\* end after at most retries+1 attempts, or one attempt when retries is
\* negative, right after its first successful attempt or after its last
\* failed attempt.
C28_EndsWithinMaxAttempts ==
    /\ [](\A i \in DOMAIN loops :
              LET R == DestCfg(loops[i]).retries IN
              BoundedLoop(loops[i], IF R < 0 THEN 1 ELSE R + 1))
    /\ EveryLoopEnds

\* Both loops have ended: the one with negative retries after its only
\* attempt failed, the other right after the success of its second attempt.
C28_Witness ==
    /\ <<0, 1>> \in DOMAIN loops /\ <<0, 2>> \in DOMAIN loops
    /\ DestCfg(loops[<<0, 1>>]).retries < 0
    /\ AllFailed(loops[<<0, 1>>]) /\ Attempts(loops[<<0, 1>>]) = 1
    /\ Ended(loops[<<0, 2>>])
    /\ Attempts(loops[<<0, 2>>]) = 2
    /\ NumEv(loops[<<0, 2>>], "success") = 1

\* ---- the retry wait
\* The waits of loop l so far, the one in progress included.
Waits(l) == NumEv(l, "sleep")

\* C29: the retry wait occurs exactly once between a failed attempt and the
\* next attempt and never after the final attempt (a loop that has made n
\* attempts has waited n-1 times, n times while it is waiting for attempt
\* n+1); a failed attempt is followed by the wait iff attempt < maxAttempts;
\* and the wait is the configured retry_delay, 1 second when that is <= 0.
C29_RetryWait ==
    \A i \in DOMAIN loops :
        LET l == loops[i]
            t == l.trace
            configured == DestCfg(l).retryDelay IN
        /\ l.pc = "sleeping" => Waits(l) = Attempts(l)
        /\ l.pc \in {"inflight", "done"} => Waits(l) = Attempts(l) - 1
        /\ \A k \in EvIdx(l, "failure") :
               IF t[k].attempt < l.maxAttempts
               THEN k < Len(t) /\ t[k + 1].ev = "sleep"
                               /\ t[k + 1].attempt = t[k].attempt
               ELSE k = Len(t)
        /\ \A k \in EvIdx(l, "sleep") :
               /\ k > 1 /\ t[k - 1].ev = "failure"
               /\ k < Len(t) => /\ t[k + 1].ev = "send"
                                /\ t[k + 1].attempt = t[k].attempt + 1
               /\ t[k].arg = IF configured <= 0 THEN 1 ELSE configured

\* A loop without a configured retry_delay has ended after three failed
\* attempts and two waits of one second; its sibling has waited its
\* configured two seconds.
C29_Witness ==
    \E i, j \in DOMAIN loops :
        /\ DestCfg(loops[i]).retryDelay = 0
        /\ AllFailed(loops[i])
        /\ Attempts(loops[i]) = 3 /\ Waits(loops[i]) = 2
        /\ \E k \in EvIdx(loops[j], "sleep") : loops[j].trace[k].arg = 2

\* ---- order of a loop's metric events
\* The Record* calls of loop l so far, in their order.
MetricEvents(l) ==
    SelectSeq(l.trace, LAMBDA e : e.ev \in {"request", "failure", "success"})

\* The Record* calls made during the latest attempt of l that has completed.
LatestRecords(l) ==
    SelectSeq(l.effects, LAMBDA e : e.op \in {"RecordFailure", "RecordSuccess"})

\* The attempts of l that have completed.
Completed(l) == Attempts(l) - (IF l.pc = "inflight" THEN 1 ELSE 0)

\* C30: the metric events of one delivery loop are one RecordRequest, then
\* RecordFailure calls, exactly one per failed attempt, then at most one
\* RecordSuccess, which is the loop's last metric event; a loop that has
\* ended has emitted at least one RecordFailure or RecordSuccess.
C30_MetricEventOrder ==
    \A i \in DOMAIN loops :
        LET l == loops[i]
            m == MetricEvents(l) IN
        l.pc # "start" =>
            /\ m[1].ev = "request"
            /\ Len(m) = 1 + Completed(l)
            /\ \A k \in 2 .. Len(m) :
                   /\ m[k].attempt = k - 1
                   /\ m[k].ev = "failure" \/ (m[k].ev = "success" /\ k = Len(m))
            /\ NumEv(l, "success") <= 1
            /\ NumEv(l, "success") = 1 => Ended(l)
            /\ Ended(l) => NumEv(l, "failure") + NumEv(l, "success") >= 1
            \* every completed attempt made exactly the one Record* call
            \* that the history holds for it
            /\ Completed(l) >= 1 =>
                   /\ Len(LatestRecords(l)) = 1
                   /\ LatestRecords(l)[1].at = Completed(l)
                   /\ LatestRecords(l)[1].op =
                          (IF m[Len(m)].ev = "success" THEN "RecordSuccess"
                                                       ELSE "RecordFailure")

\* A loop has ended with RecordRequest, two RecordFailure and a RecordSuccess
\* on its third attempt.
C30_Witness ==
    \E i \in DOMAIN loops :
        LET m == MetricEvents(loops[i]) IN
        /\ Ended(loops[i])
        /\ Len(m) = 4
        /\ m[2].ev = "failure" /\ m[3].ev = "failure" /\ m[4].ev = "success"
        /\ LatestRecords(loops[i])[1].op = "RecordSuccess"

\* ---- unreadable response body
\* Loop i has just completed an attempt whose response had a 2xx status and
\* a body that could not be read.
ReadErrorOn2xx(i) ==
    /\ i \in DOMAIN loops /\ i \in DOMAIN loops'
    /\ loops[i].pc = "inflight" /\ loops'[i].pc # "inflight"
    /\ loops'[i].lastOut.kind = "read_err"
    /\ loops'[i].lastOut.code \in 200 .. 299

C31_Step ==
    \A i \in DOMAIN loops :
        /\ ReadErrorOn2xx(i) =>
               LET l == loops[i]
                   after == loops'[i]
                   res == sendRequest(after.lastOut)
                   p == MetricsOf(l.path) IN
               /\ res.statusCode = after.lastOut.code
               /\ res.bodyNil
               /\ res.err = ErrReadBody /\ after.lastErr = ErrReadBody
               /\ NumEv(after, "failure") = NumEv(l, "failure") + 1
               /\ NumEv(after, "success") = 0
               /\ Len(LatestRecords(after)) = 1
               /\ LatestRecords(after)[1].op = "RecordFailure"
               /\ metrics'[p].failed = metrics[p].failed + 1
               /\ metrics'[p].success = metrics[p].success
               /\ after.pc = IF l.attempt < l.maxAttempts THEN "sleeping" ELSE "done"
        \* the wait over, the next attempt is made
        /\ (loops[i].pc = "sleeping" /\ loops'[i] # loops[i]) =>
               /\ loops'[i].pc = "inflight"
               /\ loops'[i].attempt = loops[i].attempt + 1
               /\ Attempts(loops'[i]) = Attempts(loops[i]) + 1

\* C31: an attempt that receives a 2xx response whose body cannot be read is
\* a failed attempt: sendRequest returns the status code, a nil body and an
\* error, exactly one RecordFailure and no RecordSuccess is recorded for it,
\* and the attempt is retried if attempts remain.
C31_ReadBodyErrorFails == [][C31_Step]_vars

\* The first attempt got a 200 whose body could not be read, RecordFailure
\* was called once and the second attempt is under way.
C31_Witness ==
    \E i \in DOMAIN loops :
        LET l == loops[i] IN
        /\ l.pc = "inflight" /\ l.attempt = 2
        /\ l.lastOut.kind = "read_err" /\ l.lastOut.code = 200
        /\ NumEv(l, "failure") = 1
        /\ metrics[MetricsOf(l.path)].success = 0

\* ---- request that cannot be constructed
\* Loop i has just completed an attempt in which http.NewRequestWithContext
\* failed.
CreateFailed(i) ==
    /\ i \in DOMAIN loops /\ i \in DOMAIN loops'
    /\ loops[i].pc = "inflight" /\ loops'[i].pc # "inflight"
    /\ loops'[i].lastOut.kind = "create_err"

C32_State ==
    \A i \in DOMAIN loops :
        LET l == loops[i]
            R == DestCfg(l).retries IN
        (~DestCfg(l).valid /\ l.pc # "start") =>
            /\ l.sent = <<>>
            /\ NumEv(l, "success") = 0
            /\ NumEv(l, "failure") = Completed(l)
            /\ l.pc = "sleeping" => Attempts(l) < R + 1
            /\ (Ended(l) /\ R >= 0) => Attempts(l) = R + 1

C32_Step ==
    \A i \in DOMAIN loops :
        CreateFailed(i) =>
            LET l == loops[i]
                after == loops'[i]
                p == MetricsOf(l.path)
                last == after.trace[Len(after.trace)]
                failure == IF after.pc = "sleeping"
                           THEN after.trace[Len(after.trace) - 1] ELSE last
                retried == IF l.attempt > 1 THEN 1 ELSE 0 IN
            /\ after.lastErr = ErrCreate
            /\ Len(LatestRecords(after)) = 1
            /\ LatestRecords(after)[1].op = "RecordFailure"
            /\ failure.ev = "failure" /\ failure.attempt = l.attempt
            /\ failure.arg = retried
            /\ metrics'[p].failed = metrics[p].failed + 1
            /\ metrics'[p].retries = metrics[p].retries + retried
            /\ after.pc = IF l.attempt < DestCfg(l).retries + 1 THEN "sleeping" ELSE "done"

\* C32: a failure to construct the outgoing request is handled like any
\* other failed attempt: exactly one RecordFailure is recorded for the
\* attempt, with isRetry = (attempt > 1), and the loop waits and retries as
\* long as fewer than retries+1 attempts have been made.
C32_CreateErrorRetried == [](C32_State) /\ [][C32_Step]_vars

\* The loop of a destination whose request cannot be constructed, retries 2,
\* has ended after three attempts: RecordFailure with isRetry false, true,
\* true, and nothing sent.
C32_Witness ==
    \E i \in DOMAIN loops :
        LET l == loops[i]
            m == MetricEvents(l) IN
        /\ ~DestCfg(l).valid /\ DestCfg(l).retries = 2
        /\ Ended(l) /\ Attempts(l) = 3
        /\ m[2].arg = 0 /\ m[3].arg = 1 /\ m[4].arg = 1
        /\ l.sent = <<>>
        /\ metrics[MetricsOf(l.path)].retries >= 2

\* ---- the final error log
\* How many times the final error of loop l was logged.
FinalLogs(l) ==
    Len(SelectSeq(l.effects,
            LAMBDA e : e.op = "log"
                /\ e.msg = "Webhook forwarding failed after all retry attempts"))

\* C33: a loop that has ended without a successful attempt has logged
\* "Webhook forwarding failed after all retry attempts" exactly once,
\* whatever the kind of its last failure; a loop that has ended in success
\* has not logged it.
C33_FinalLogOnExhaustion ==
    \A i \in DOMAIN loops :
        LET l == loops[i] IN
        Ended(l) =>
            /\ FinalLogs(l) = (IF NumEv(l, "success") = 0 THEN 1 ELSE 0)
            /\ l.finalLog <=> NumEv(l, "success") = 0

\* ---- successes and requests
\* GetMetrics of handler p reports no more successes than requests, globally
\* and for every destination entry, and a success rate of at most 100 %.
SuccessWithinTotal(p) ==
    LET v == GetMetrics(metrics[MetricsOf(p)]) IN
    /\ v.successful_requests <= v.total_requests
    /\ \A u \in DOMAIN v.destinations :
           v.destinations[u].successful_requests <= v.destinations[u].total_requests
    /\ calculateSuccessRate(v.successful_requests, v.total_requests) <= 100 * 100

\* Loop i called RecordRequest before the latest Reset of p's registry and
\* RecordSuccess after it.
SucceededAcrossReset(p, i) ==
    /\ Mark(p, i) >= 1
    /\ \E k \in EvIdx(loops[i], "success") : k > Mark(p, i)

\* C34 as stated: in every reachable state, Reset running at any moment of
\* the delivery loops, GetMetrics reports successful_requests <=
\* total_requests, globally and per destination entry, and the success rate
\* computed from them is at most 100.
C34_SuccessAtMostTotal == \A p \in DOMAIN metrics : SuccessWithinTotal(p)

\* C34 (amended): the same in every reachable state in which no delivery
\* loop has recorded its success after a Reset that ran between its
\* RecordRequest and that RecordSuccess.
C34_SuccessAtMostTotalNoResetBetween ==
    \A p \in DOMAIN metrics :
        (\A i \in LoopsOf(p) : ~SucceededAcrossReset(p, i)) => SuccessWithinTotal(p)

\* Reset ran between the RecordRequest and the RecordFailure of one loop and
\* before the other loop started, which has succeeded: one request and one
\* success are reported.
C34_Witness ==
    \E i, j \in LoopsOf("/a") :
        /\ resetMark["/a"].happened
        /\ Mark("/a", i) >= 1
        /\ \E k \in EvIdx(loops[i], "failure") : k > Mark("/a", i)
        /\ Mark("/a", j) = 0 /\ NumEv(loops[j], "success") = 1
        /\ metrics["/a"].success = 1 /\ metrics["/a"].total = 1

\* ---- retries and failures
\* C35: in every reachable state, Reset running at any moment of the
\* delivery loops, GetMetrics reports retries <= failed_requests, globally
\* and for every destination entry; in the states reached without a Reset it
\* reports failed_requests - retries <= total_requests as well (at most one
\* failure that is not a retry per started loop).
C35_RetriesWithinFailures ==
    \A p \in DOMAIN metrics :
        LET v == GetMetrics(metrics[MetricsOf(p)]) IN
        /\ v.retries <= v.failed_requests
        /\ \A u \in DOMAIN v.destinations :
               v.destinations[u].retries <= v.destinations[u].failed_requests
        /\ ~resetMark[p].happened =>
               /\ v.failed_requests - v.retries <= v.total_requests
               /\ \A u \in DOMAIN v.destinations :
                      v.destinations[u].failed_requests - v.destinations[u].retries
                          <= v.destinations[u].total_requests

\* Reset ran between the two failed attempts of a loop: the registry holds
\* the retry alone, one failure that is a retry and no request.
C35_Witness ==
    \E i \in LoopsOf("/a") :
        /\ resetMark["/a"].happened
        /\ AllFailed(loops[i]) /\ Attempts(loops[i]) = 2
        /\ metrics["/a"].failed = 1 /\ metrics["/a"].retries = 1
        /\ metrics["/a"].total = 0
        /\ DestOf(metrics["/a"], DestCfg(loops[i]).url).retries = 1

\* ---- status-code histogram
\* Every key of the histogram is a 2xx status code and its counts add up to
\* the successes reported next to it.
HistogramOfSuccesses(codes, successes) ==
    /\ \A c \in DOMAIN codes : c >= 200 /\ c < 300 /\ codes[c] >= 1
    /\ SumOver(codes, DOMAIN codes) = successes

ResponseReady == admin.pc = "get" /\ admin.todo = {}

\* The response holds the counters of some handler as they were after its
\* reset and, for another handler, counters recorded before its reset.
MixedResponse ==
    \E p \in admin.afterReset, q \in Paths \ admin.afterReset :
        MetricsResponse.endpoints[q].total_requests > 0

\* The global totals of the response are the sums of its per-endpoint values.
GlobalIsSum ==
    \A f \in {"total_requests", "successful_requests", "failed_requests", "retries"} :
        MetricsResponse.global[f] =
            SumOver([p \in Paths |-> MetricsResponse.endpoints[p][f]], Paths)

\* C37 as stated: no /metrics response reflects a state in which some
\* endpoints' handlers have been reset while others still hold their
\* pre-reset counters, and the global totals of a response equal the sum of
\* the per-endpoint values of that response.
C37_ResetAtomicForGet == ResponseReady => (~MixedResponse /\ GlobalIsSum)

\* C37 (amended): POST /metrics/reset is atomic with respect to GET /metrics
\* for each endpoint's handler taken alone (what a response holds for one
\* endpoint is one state of its registry, the counters and the
\* per-destination entries being from the same side of its reset), and the
\* global totals of a response equal the sum of the per-endpoint values of
\* that response.
C37_ResetAtomicPerHandler ==
    ResponseReady =>
        /\ \A p \in Paths : Untorn(MetricsResponse.endpoints[p])
        /\ GlobalIsSum

\* A response that holds "/a" after its reset, which erased a recorded
\* request, and the request of "/b" from before its reset; the global total
\* is their sum, 1.
C37_Witness ==
    /\ ResponseReady
    /\ admin.afterReset = {"/a"}
    /\ \E i \in LoopsOf("/a") : Mark("/a", i) >= 1
    /\ MetricsResponse.endpoints["/a"].total_requests = 0
    /\ MetricsResponse.endpoints["/b"].total_requests = 1
    /\ MetricsResponse.global.total_requests = 1

====
